---- MODULE Spec2Model ----
(***************************************************************************)
(* Model of the download-and-transcode pipeline of src/lib/server.js:      *)
(* the POST /download handler (single item and playlist), processVideo,    *)
(* cleanup, the delivery of the finished artifact and the periodic sweep   *)
(* of the scratch directory.                                               *)
(*                                                                         *)
(* Files of the scratch directory are [id, ext] records: every name the    *)
(* program creates is "<uuid>.<ext>", and id stands for the uuid.  The     *)
(* uuids are <<"U",0>> (uploaded cover), <<"S",0>> (cover fetched from the *)
(* request's cover URL), <<"C",i>> (thumbnail fetched for item i),         *)
(* <<"J",i>> (outputId of the job of item i: .webm and .mp3 share it) and  *)
(* <<"Z",0>> (the archive).  uuidv4 is taken to be collision free.         *)
(*                                                                         *)
(* Filesystem calls on existing files are taken to succeed (SpecClean and  *)
(* SpecDir excepted, where they may fail), and files of a running request  *)
(* are younger than the sweep's MAX_AGE.                                   *)
(*                                                                         *)
(* Twelve specifications share the variables:                                 *)
(*   Spec          one request through the handler, with the sweep;        *)
(*   SpecProgress  the progress events of one processVideo call;           *)
(*   SpecSend      one call of sendFileInChunks, chunk by chunk;           *)
(*   SpecDeliver   that call and the handler's continuation, under         *)
(*                 fairness;                                               *)
(*   SpecPair      two single-item requests in flight at once;             *)
(*   SpecSweep     one run of the scheduled cleanup over its directories;  *)
(*   SpecParse     one output line through the progress patterns;          *)
(*   SpecClean     one call of cleanup;                                    *)
(*   SpecMeta      one call of getVideoMetadata;                           *)
(*   SpecThumb     the thumbnail selection of getVideoMetadata;            *)
(*   SpecNames     the entry names the playlist loop gives the archive;    *)
(*   SpecDir       one call of cleanupDirectory with failing filesystem    *)
(*                 calls and recursion.                                    *)
(*                                                                         *)
(* The libraries the program calls are taken at their documented           *)
(* behaviour: the callback given to socket.emit is called when the         *)
(* consumer acknowledges the event, and the synchronous tag writer         *)
(* reports a failure by throwing or by returning an error.                 *)
(***************************************************************************)
EXTENDS Integers, Sequences, FiniteSets, TLC

\* Largest number of playlist items of a request.
MaxItems == 2

VARIABLES
  req,            \* the request body and upload (fixed after Init)
  files,          \* names present in TEMP_DIR
  pc,             \* position of the /download handler
  idx,            \* index of the playlist item (job) being processed
  coverPath,      \* the handler's coverPath
  songCoverPath,  \* the playlist loop's songCoverPath
  tempFiles,      \* the handler's tempFiles
  results,        \* the handler's results
  proc,           \* state of the extraction subprocess of the current job
  queue,          \* archiver: entries appended with archive.file, not yet read
  entries,        \* archiver: entries written to the archive
  finalized,      \* archive.finalize() was called
  jobState,       \* per job: pending | running | completed | failed
  delivered,      \* none | ok | failed : how sendFileInChunks ended
  ev,             \* what was emitted to the requester (counts, last event)
  songArtist,     \* the playlist loop's songArtist
  songAlbum,      \* the playlist loop's songAlbum
  tags,           \* processVideo's tags as embedded in the file it returns
  preFail,        \* TEMP_DIR right before the step that failed the current job
  \* progress reporting of one processVideo call
  ppc,            \* idle | running (subprocess alive) | closed (it has exited)
  now,            \* Date.now(), in ms since the call
  lastProgressUpdate,            \* processVideo's lastProgressUpdate
  halfwayMessageSent,            \* processVideo's halfwayMessageSent
  downloadCompletedMessageSent,  \* processVideo's downloadCompletedMessageSent
  intervalIndex,  \* emitFakeProgress's intervalIndex
  timerOn,        \* the setInterval of emitFakeProgress is armed
  lines,          \* number of output lines the subprocess has produced
  parsed,         \* the percentages parsed out of these lines, in order
  out,            \* the 'progress' events emitted for the job, in order
  \* one call of sendFileInChunks
  spc,            \* position of sendFileInChunks
  fileSize,       \* fileStats.size, in bytes
  bytesSent,      \* sendFileInChunks's bytesSent
  chan,           \* the delivery events and the consumer's acknowledgements, in order
  \* two requests in flight at once
  rq,             \* per request: position, cover, tempFiles, outputId
  uuids,          \* the uuids handed out so far
  \* one run of the scheduled cleanup
  tree,           \* the entries of the server's directories
  tree0,          \* these entries when the run began
  swpc,           \* idle | next (between two directories) | entries | done
  pathsToClean,   \* the directories the run has still to clean
  statting,       \* cleanupDirectory: entries whose fs.stat is outstanding
  unlinking,      \* cleanupDirectory: entries whose fs.unlink is outstanding
  cleaned,        \* cleanupDirectory's cleaned
  totalCleaned,   \* the run's totalCleaned
  resolved,       \* what each call of cleanupDirectory resolved with, in order
  \* one output line through the patterns of extractAndEmitProgress
  line,           \* the line, as the tokens the patterns look for
  parsePc,        \* idle | done
  parseOut,       \* extractAndEmitProgress's progress after the loop
  \* one call of cleanup
  cdir,           \* the directory of the paths
  filePaths,      \* cleanup's filePaths
  cpos,           \* 0 before the call, then the index of the path in turn
  unlinkFails,    \* the names on which fs.unlinkSync throws
  craised,        \* an exception has left cleanup
  cfailed,        \* the paths of filePaths during which a filesystem call threw
  cdir0,          \* the directory when cleanup was called
  \* one call of getVideoMetadata
  mpc,            \* idle | flat | probe | returned | thrown
  mdir,           \* TEMP_DIR
  probeIn,        \* the url and what the subprocesses will answer
  made,           \* the files the probe has created under its tempId
  tempWebmFiles,  \* getVideoMetadata's tempWebmFiles
  mret,           \* what getVideoMetadata returned
  \* the thumbnail selection of getVideoMetadata
  thumbIn,        \* data.thumbnails and data.thumbnail
  thumbPc,        \* idle | done
  thumbOut,       \* getVideoMetadata's thumbnail
  \* the entry names of a playlist's archive
  titles,         \* item.title of the items of the request, in order
  apos,           \* position of the playlist loop
  archive,        \* the (path, name) pairs given to archive.file, in order
  \* one call of cleanupDirectory, with the calls it makes of itself
  dtree,          \* the entries under dir, each with its nesting level
  dtree0,         \* the entries when cleanupDirectory was called
  isRecursive,    \* cleanupDirectory's isRecursive
  calls,          \* per nesting level: the call's state, pending, cleaned,
                  \* the number of resolve calls and the promise's value
  stage           \* per file: none | stat | unlink | statFailed | kept |
                  \* unlinkFailed | deleted

pipeVars == <<req, files, pc, idx, coverPath, songCoverPath, tempFiles, results,
              proc, queue, entries, finalized, jobState, delivered, ev,
              songArtist, songAlbum, tags, preFail>>

progVars == <<ppc, now, lastProgressUpdate, halfwayMessageSent,
              downloadCompletedMessageSent, intervalIndex, timerOn, lines, parsed,
              out>>

sendVars == <<spc, fileSize, bytesSent, chan>>

pairVars == <<rq, uuids>>

sweepVars == <<tree, tree0, swpc, pathsToClean, statting, unlinking, cleaned,
               totalCleaned, resolved>>

parseVars == <<line, parsePc, parseOut>>

cleanVars == <<cdir, filePaths, cpos, unlinkFails, craised, cfailed, cdir0>>

metaVars == <<mpc, mdir, probeIn, made, tempWebmFiles, mret>>

thumbVars == <<thumbIn, thumbPc, thumbOut>>

nameVars == <<titles, apos, archive>>

dirVars == <<dtree, dtree0, isRecursive, calls, stage>>

\* The variables of the specifications of single functions.
toolVars == <<sweepVars, parseVars, cleanVars, metaVars, thumbVars, nameVars,
              dirVars>>

\* The variables the /download pipeline leaves alone.
auxVars == <<progVars, sendVars, pairVars, toolVars>>

vars == <<pipeVars, progVars, sendVars, pairVars, toolVars>>

Items == 1..MaxItems

\* ---------------------------------------------------------------- names

File(k, i, e) == [id |-> <<k, i>>, ext |-> e]
NoPath == File("none", 0, "")
UploadPath == File("U", 0, req.upload)
SharedCover == File("S", 0, "jpg")
ItemCover(i) == File("C", i, "jpg")
OutputPath(i) == File("J", i, "mp3")
TempWebmPath(i) == File("J", i, "webm")
ZipPath == File("Z", 0, "zip")

\* /^[a-f0-9-]{36}$/i on the name up to its first dot: the ids <<"name", k>>
\* stand for names that are not uuids (server.js, notes.txt).
IsUuid(id) == id[1] # "name"

\* ---------------------------------------------------------------- cleanup

\* The extensions cleanup strips from a path and tries as sibling variants.
CleanupExts == {"part", "webm", "mp3", "jpg", "jpeg", "temp"}

\* The extensions array of cleanup, in its order.
extensions == <<"part", "webm", "mp3", "jpg", "jpeg", "temp">>

\* Faulty variant of VariantAt: baseFile keeps the extension of the path.
VariantAtKeepsExt(p, k) == [id |-> p.id, ext |-> p.ext \o "." \o extensions[k]]

\* `${baseFile}${ext}` for the k-th extension: baseFile is the path without
\* its extension if that is a known one, the whole path otherwise.
VariantAt(p, k) ==
  [id |-> p.id,
   ext |-> IF p.ext \in CleanupExts THEN extensions[k]
           ELSE p.ext \o "." \o extensions[k]]

\* The variant paths of a path.
Variants(p) == {VariantAt(p, k) : k \in 1..Len(extensions)}

\* Faulty variant of Related: entries are matched on their extension, not on
\* the uuid their name starts with.
RelatedByExtension(fs, p) == {f \in fs : f.ext = p.ext /\ f # p}

\* Other directory entries whose name starts with the path's uuid; they are
\* looked for only if the name of the path is a uuid.
Related(fs, p) == {f \in fs : IsUuid(p.id) /\ f.id = p.id /\ f # p}

CleanupOne(fs, p) ==
  IF p = NoPath THEN fs
  ELSE fs \ ({p} \cup Variants(p) \cup Related(fs, p))

RECURSIVE CleanupSet(_, _)
CleanupSet(fs, ps) ==
  IF ps = {} THEN fs
  ELSE LET p == CHOOSE x \in ps : TRUE
       IN CleanupSet(CleanupOne(fs, p), ps \ {p})

\* cleanup(...filePaths)
cleanup(fs, ps) == CleanupSet(fs, ps)

\* ---------------------------------------------------------------- sweep

\* isTempFile of cleanupDirectory: the name ends in .webm, .part or .temp, or
\* it is a uuid followed by one of five extensions.
isTempFile(f) ==
  \/ f.ext \in {"webm", "part", "temp"}
  \/ IsUuid(f.id) /\ f.ext \in {"webm", "mp3", "part", "jpg", "jpeg"}

\* ---------------------------------------------------------------- events

NoEvents ==
  [complete |-> 0, error |-> 0, itemErr |-> [i \in Items |-> 0],
   fileComplete |-> 0, last |-> "none", job |-> 0, snap |-> {}]

\* socket.emit of a tracked event: counted, and remembered as the last event;
\* for a terminal or error event, with the directory content at that instant.
Emit(e, kind, job, fs) ==
  LET c == CASE kind = "downloadComplete" -> [e EXCEPT !.complete = @ + 1]
             [] kind = "error" -> [e EXCEPT !.error = @ + 1]
             [] kind = "itemError" -> [e EXCEPT !.itemErr[job] = @ + 1]
             [] kind = "fileComplete" -> [e EXCEPT !.fileComplete = @ + 1]
             [] OTHER -> e
  IN [c EXCEPT !.last = kind, !.job = job,
               !.snap = IF kind = "fileComplete" THEN {} ELSE fs]

\* ---------------------------------------------------------------- requests

\* A form field that was not sent (undefined in req.body).
Absent == "<absent>"

\* !v is false: the field was sent and is not the empty string.
Truthy(v) == v \notin {Absent, ""}

\* metadata.artist and metadata.album of getVideoMetadata.
MetaArtist == "Meta artist"
MetaAlbum == "Meta album"

Requests ==
  {[mode |-> "single", n |-> 1, upload |-> u, coverUrl |-> c,
    artist |-> "Artist X", album |-> b, itemsValid |-> TRUE] :
      u \in {"none", "jpg", "png"}, c \in BOOLEAN, b \in {"", "Album A"}}
  \cup
  {[mode |-> "playlist", n |-> n, upload |-> u, coverUrl |-> c,
    artist |-> a, album |-> b, itemsValid |-> v] :
      n \in Items, u \in {"none", "jpg", "png"}, c \in BOOLEAN,
      a \in {Absent, "Artist X"}, b \in {"", "Album A"}, v \in BOOLEAN}

\* No call of processVideo has reached the tag writer.
NoTags ==
  [state |-> "none", title |-> <<"none", 0>>, artist |-> Absent,
   album |-> Absent, image |-> FALSE]

\* The variables of sendFileInChunks before it is called.
SendIdle ==
  /\ spc = "idle"
  /\ fileSize = 0
  /\ bytesSent = 0
  /\ chan = <<>>

\* The variables of the pair of requests before either has arrived.
PairIdle ==
  /\ rq = <<>>
  /\ uuids = 0

\* The variables of the scheduled cleanup before its timer fires.
SweepIdle ==
  /\ tree = {}
  /\ tree0 = {}
  /\ swpc = "idle"
  /\ pathsToClean = <<>>
  /\ statting = {}
  /\ unlinking = {}
  /\ cleaned = 0
  /\ totalCleaned = 0
  /\ resolved = <<>>

\* No output line is being parsed.
NoLine == [tag |-> "none", pct |-> -1, decimal |-> FALSE, of |-> FALSE,
           frame |-> FALSE, h |-> 0, m |-> 0, s |-> 0]

ParseIdle ==
  /\ line = NoLine
  /\ parsePc = "idle"
  /\ parseOut = -1

\* The variables of cleanup before it is called.
CleanIdle ==
  /\ cdir = {}
  /\ filePaths = <<>>
  /\ cpos = 0
  /\ unlinkFails = {}
  /\ craised = FALSE
  /\ cfailed = {}
  /\ cdir0 = {}

\* getVideoMetadata returned nothing (yet).
NoMeta == [title |-> Absent, artist |-> Absent, album |-> Absent,
           thumbnail |-> Absent, url |-> Absent]

\* No call of getVideoMetadata is followed.
NoProbe == [playlistLike |-> FALSE, flat |-> "none", code |-> 0, stdout |-> "none",
            writes |-> {}]

\* The variables of getVideoMetadata before it is called.
MetaIdle ==
  /\ mpc = "idle"
  /\ mdir = {}
  /\ probeIn = NoProbe
  /\ made = {}
  /\ tempWebmFiles = {}
  /\ mret = NoMeta

\* The variables of the specifications of single functions, unused.
\* The thumbnail selection has no input.
ThumbIdle ==
  /\ thumbIn = [hasList |-> FALSE, thumbnails |-> <<>>, thumbnail |-> Absent]
  /\ thumbPc = "idle"
  /\ thumbOut = Absent

\* The playlist loop of the entry names before it runs.
NameIdle ==
  /\ titles = <<>>
  /\ apos = 1
  /\ archive = <<>>

\* Largest nesting of subdirectories under the directory cleaned.
MaxDepth == 1

Levels == 0..MaxDepth

\* No call of cleanupDirectory has been made at a level.
NoCall == [st |-> "none", pending |-> 0, cleaned |-> 0, resolves |-> 0, value |-> 0]

\* cleanupDirectory before it is called.
DirIdle ==
  /\ dtree = {}
  /\ dtree0 = {}
  /\ isRecursive = FALSE
  /\ calls = [k \in Levels |-> NoCall]
  /\ stage = <<>>

ToolIdle ==
  SweepIdle /\ ParseIdle /\ CleanIdle /\ MetaIdle /\ ThumbIdle /\ NameIdle /\ DirIdle

\* The progress variables before processVideo is called.
ProgIdle ==
  /\ ppc = "idle"
  /\ now = 0
  /\ lastProgressUpdate = 0
  /\ halfwayMessageSent = FALSE
  /\ downloadCompletedMessageSent = FALSE
  /\ intervalIndex = 0
  /\ timerOn = FALSE
  /\ lines = 0
  /\ parsed = <<>>
  /\ out = <<>>

Init ==
  /\ ProgIdle
  /\ SendIdle
  /\ PairIdle
  /\ ToolIdle
  /\ req \in Requests
  /\ files = IF req.upload = "none" THEN {} ELSE {File("U", 0, req.upload)}
  /\ pc = "start"
  /\ idx = 1
  /\ coverPath = NoPath
  /\ songCoverPath = NoPath
  /\ tempFiles = {}
  /\ results = {}
  /\ proc = [i \in Items |-> "none"]
  /\ queue = <<>>
  /\ entries = <<>>
  /\ finalized = FALSE
  /\ jobState = [i \in Items |-> "pending"]
  /\ delivered = "none"
  /\ ev = NoEvents
  /\ songArtist = Absent
  /\ songAlbum = Absent
  /\ tags = NoTags
  /\ preFail = {}

\* ---------------------------------------------------------------- handler

Single == req.mode = "single"

\* Where a throw of processVideo (or of sendFileInChunks) lands.
CatchPc == IF Single THEN "singleCatch" ELSE "itemCatch"

\* The cover given to processVideo: coverPath (single), songCoverPath (playlist).
JobCover == IF Single THEN coverPath ELSE songCoverPath

\* let coverPath = req.files?.cover?.[0]?.path; a cover URL is fetched only
\* when no file was uploaded.
HandleCover ==
  /\ pc = "start"
  /\ coverPath' = IF req.upload # "none" THEN UploadPath ELSE NoPath
  /\ pc' = IF req.upload = "none" /\ req.coverUrl THEN "sharedThumb" ELSE "branch"
  /\ UNCHANGED <<auxVars, songArtist, songAlbum, tags, preFail, req, files, idx, songCoverPath, tempFiles, results, proc,
                 queue, entries, finalized, jobState, delivered, ev>>

\* coverPath = await downloadThumbnail(req.body.coverUrl): a path, or null on
\* any failure.
SharedThumbReturn(ok) ==
  /\ pc = "sharedThumb"
  /\ IF ok
     THEN /\ files' = files \cup {SharedCover}
          /\ coverPath' = SharedCover
          /\ tempFiles' = tempFiles \cup {SharedCover}
     ELSE /\ coverPath' = NoPath
          /\ UNCHANGED <<files, tempFiles>>
  /\ pc' = "branch"
  /\ UNCHANGED <<auxVars, songArtist, songAlbum, tags, preFail, req, idx, songCoverPath, results, proc, queue, entries,
                 finalized, jobState, delivered, ev>>

\* if (isPlaylist === 'true') { ... } else { ... }: the playlist branch parses
\* items (a throw lands in the outer catch) and opens the archive; the single
\* branch probes the metadata only when there is no cover.
Branch ==
  /\ pc = "branch"
  /\ IF ~Single
     THEN IF ~req.itemsValid
          THEN /\ pc' = "outerCatch"
               /\ UNCHANGED <<files, jobState>>
          ELSE /\ files' = files \cup {ZipPath}
               /\ pc' = "item"
               /\ UNCHANGED jobState
     ELSE /\ pc' = IF coverPath = NoPath THEN "probe" ELSE "spawn"
          /\ jobState' = [jobState EXCEPT ![1] =
                            IF coverPath = NoPath THEN "resolving" ELSE "started"]
          /\ UNCHANGED files
  /\ UNCHANGED <<auxVars, songArtist, songAlbum, tags, preFail, req, idx, coverPath, songCoverPath, tempFiles,
                 results, proc, queue, entries, finalized, delivered, ev>>

\* Head of the playlist loop: the shared overrides, and whether the per-item
\* metadata is needed.
ItemBegin ==
  /\ pc = "item"
  /\ songArtist' = req.artist
  /\ songAlbum' = req.album
  /\ songCoverPath' = coverPath
  /\ LET probe == ~Truthy(req.artist) \/ ~Truthy(req.album) \/ coverPath = NoPath
     IN /\ jobState' = [jobState EXCEPT ![idx] =
                          IF probe THEN "resolving" ELSE "started"]
        /\ pc' = IF probe THEN "probe" ELSE "spawn"
  /\ UNCHANGED <<auxVars, tags, preFail, req, files, idx, coverPath, tempFiles, results, proc,
                 queue, entries, finalized, delivered, ev>>

\* await getVideoMetadata(url): it resolves (with or without a thumbnail) or
\* throws.  The single branch catches the throw and goes on without a cover;
\* in the playlist loop the throw fails the item.
ProbeReturn(ok, thumb) ==
  /\ pc = "probe"
  /\ IF ok
     THEN /\ pc' = IF JobCover = NoPath /\ thumb THEN "thumb" ELSE "spawn"
          /\ IF Single
             THEN UNCHANGED <<songArtist, songAlbum>>
             ELSE /\ songArtist' = IF Truthy(req.artist) THEN req.artist
                                   ELSE MetaArtist
                  /\ songAlbum' = IF Truthy(req.album) THEN req.album
                                  ELSE MetaAlbum
          /\ UNCHANGED <<jobState, preFail>>
     ELSE IF Single
          THEN /\ pc' = "spawn"
               /\ UNCHANGED <<jobState, songArtist, songAlbum, preFail>>
          ELSE /\ pc' = "itemCatch"
               /\ jobState' = [jobState EXCEPT ![idx] = "failed"]
               /\ preFail' = files
               /\ UNCHANGED <<songArtist, songAlbum>>
  /\ UNCHANGED <<auxVars, tags, req, files, idx, coverPath, songCoverPath, tempFiles, results,
                 proc, queue, entries, finalized, delivered, ev>>

\* await downloadThumbnail(metadata.thumbnail); if (path) tempFiles.push(path)
ThumbReturn(ok) ==
  /\ pc = "thumb"
  /\ IF ok
     THEN /\ files' = files \cup {ItemCover(idx)}
          /\ tempFiles' = tempFiles \cup {ItemCover(idx)}
          /\ IF Single
             THEN coverPath' = ItemCover(idx) /\ UNCHANGED songCoverPath
             ELSE songCoverPath' = ItemCover(idx) /\ UNCHANGED coverPath
     ELSE /\ IF Single
             THEN coverPath' = NoPath /\ UNCHANGED songCoverPath
             ELSE songCoverPath' = NoPath /\ UNCHANGED coverPath
          /\ UNCHANGED <<files, tempFiles>>
  /\ pc' = "spawn"
  /\ UNCHANGED <<auxVars, songArtist, songAlbum, tags, preFail, req, idx, results, proc, queue, entries, finalized, jobState,
                 delivered, ev>>

\* Faulty variant of Spawn: the subprocess is not awaited and the loop moves on.
SpawnWithoutAwait ==
  /\ pc = "spawn"
  /\ proc' = [proc EXCEPT ![idx] = "running"]
  /\ jobState' = [jobState EXCEPT ![idx] = "running"]
  /\ IF idx < req.n
     THEN idx' = idx + 1 /\ pc' = IF Single THEN "run" ELSE "item"
     ELSE idx' = idx /\ pc' = "run"
  /\ UNCHANGED <<auxVars, songArtist, songAlbum, tags, preFail, req, files, coverPath, songCoverPath, tempFiles, results,
                 queue, entries, finalized, delivered, ev>>

\* processVideo up to its await: the subprocess is spawned.
Spawn ==
  /\ pc = "spawn"
  /\ proc' = [proc EXCEPT ![idx] = "running"]
  /\ jobState' = [jobState EXCEPT ![idx] = "running"]
  /\ pc' = "run"
  /\ UNCHANGED <<auxVars, songArtist, songAlbum, tags, preFail, req, files, idx, coverPath, songCoverPath, tempFiles, results,
                 queue, entries, finalized, delivered, ev>>

\* The subprocess writes the download to --output (tempWebmPath).
YtdlpWrite(i) ==
  /\ proc[i] = "running"
  /\ files' = files \cup {TempWebmPath(i)}
  /\ proc' = [proc EXCEPT ![i] = "written"]
  /\ UNCHANGED <<auxVars, songArtist, songAlbum, tags, preFail, req, pc, idx, coverPath, songCoverPath, tempFiles, results,
                 queue, entries, finalized, jobState, delivered, ev>>

\* The subprocess transcodes the download to .mp3 and removes or keeps it.
YtdlpConvert(i, keep) ==
  /\ proc[i] = "written"
  /\ TempWebmPath(i) \in files
  /\ files' = (files \cup {OutputPath(i)})
                \ (IF keep THEN {} ELSE {TempWebmPath(i)})
  /\ proc' = [proc EXCEPT ![i] = "converted"]
  /\ UNCHANGED <<auxVars, songArtist, songAlbum, tags, preFail, req, pc, idx, coverPath, songCoverPath, tempFiles, results,
                 queue, entries, finalized, jobState, delivered, ev>>

\* Faulty variant of YtdlpClose: the exit code is not looked at.
YtdlpCloseIgnoresCode(code) ==
  /\ pc = "run" /\ proc[idx] # "none"
  /\ proc' = [proc EXCEPT ![idx] = "none"]
  /\ pc' = "closed"
  /\ UNCHANGED <<auxVars, songArtist, songAlbum, tags, preFail, req, files, idx,
                 coverPath, songCoverPath, tempFiles, results, queue, entries,
                 finalized, jobState, delivered, ev>>

\* Faulty variant of YtdlpClose: the catch of processVideo rethrows without
\* cleaning up.
YtdlpCloseWithoutCleanup(code) ==
  /\ pc = "run" /\ proc[idx] # "none"
  /\ proc' = [proc EXCEPT ![idx] = "none"]
  /\ IF code = 0
     THEN /\ pc' = "closed"
          /\ UNCHANGED <<jobState, preFail>>
     ELSE /\ jobState' = [jobState EXCEPT ![idx] = "failed"]
          /\ preFail' = files
          /\ pc' = CatchPc
  /\ UNCHANGED <<auxVars, songArtist, songAlbum, tags, req, files, idx, coverPath,
                 songCoverPath, tempFiles, results, queue, entries, finalized,
                 delivered, ev>>

\* ytdlp.on('close'): code 0 resolves; any other code rejects, and the catch of
\* processVideo cleans outputPath and tempWebmPath and rethrows.
YtdlpClose(code) ==
  /\ pc = "run" /\ proc[idx] # "none"
  /\ proc' = [proc EXCEPT ![idx] = "none"]
  /\ IF code = 0
     THEN /\ pc' = "closed"
          /\ UNCHANGED <<files, jobState, preFail>>
     ELSE /\ files' = cleanup(files, {OutputPath(idx), TempWebmPath(idx)})
          /\ jobState' = [jobState EXCEPT ![idx] = "failed"]
          /\ preFail' = files
          /\ pc' = CatchPc
  /\ UNCHANGED <<auxVars, songArtist, songAlbum, tags, req, idx, coverPath, songCoverPath, tempFiles, results, queue,
                 entries, finalized, delivered, ev>>

\* The title, artist and album processVideo is called with.
JobTitle == IF Single THEN <<"title", 0>> ELSE <<"item.title", idx>>
JobArtist == IF Single THEN req.artist ELSE songArtist
JobAlbum == IF Single THEN req.album ELSE songAlbum

\* Faulty variant of OutputCheck: the output file is not looked for.
OutputCheckSkipped ==
  /\ pc = "closed"
  /\ jobState' = [jobState EXCEPT ![idx] = "tagging"]
  /\ pc' = "tag"
  /\ UNCHANGED <<auxVars, songArtist, songAlbum, tags, preFail, req, files, idx,
                 coverPath, songCoverPath, tempFiles, results, proc, queue,
                 entries, finalized, delivered, ev>>

\* processVideo after the await: 'processing' 100 is emitted and the output
\* must exist, or the throw goes through the catch of processVideo.
OutputCheck ==
  /\ pc = "closed"
  /\ IF OutputPath(idx) \notin files
     THEN /\ files' = cleanup(files, {OutputPath(idx), TempWebmPath(idx)})
          /\ jobState' = [jobState EXCEPT ![idx] = "failed"]
          /\ preFail' = files
          /\ pc' = CatchPc
     ELSE /\ jobState' = [jobState EXCEPT ![idx] = "tagging"]
          /\ pc' = "tag"
          /\ UNCHANGED <<files, preFail>>
  /\ UNCHANGED <<auxVars, songArtist, songAlbum, tags, req, idx, coverPath,
                 songCoverPath, tempFiles, results, proc, queue, entries,
                 finalized, delivered, ev>>

\* What the tag writer embeds: title, artist and album as given, and the
\* image when coverPath is set and the file exists.
BuildTags ==
  [state |-> "ok", title |-> JobTitle, artist |-> JobArtist, album |-> JobAlbum,
   image |-> (JobCover # NoPath /\ JobCover \in files)]

\* NodeID3.write(tags, outputPath), the unlink of a leftover tempWebmPath and
\* return outputPath.  The writer embeds the tags ("ok"), or it fails: by
\* throwing ("throws": the catch of processVideo cleans up and rethrows) or by
\* returning an error ("error"), and the value it returns is not looked at.
\* It cannot embed anything in a file that is gone.
WriteTags(outcome) ==
  /\ pc = "tag"
  /\ IF outcome = "throws"
     THEN /\ files' = cleanup(files, {OutputPath(idx), TempWebmPath(idx)})
          /\ jobState' = [jobState EXCEPT ![idx] = "failed"]
          /\ preFail' = files
          /\ pc' = CatchPc
          /\ UNCHANGED tags
     ELSE /\ tags' = IF outcome = "ok" /\ OutputPath(idx) \in files
                      THEN BuildTags
                      ELSE [NoTags EXCEPT !.state = "failed"]
          /\ files' = files \ {TempWebmPath(idx)}
          /\ jobState' = [jobState EXCEPT ![idx] = "completed"]
          /\ pc' = IF Single THEN "send" ELSE "itemOk"
          /\ UNCHANGED preFail
  /\ UNCHANGED <<auxVars, songArtist, songAlbum, req, idx, coverPath,
                 songCoverPath, tempFiles, results, proc, queue, entries,
                 finalized, delivered, ev>>

\* End of one loop iteration: the next item, or archive.finalize() after the last.
NextItem ==
  IF idx < req.n
  THEN /\ idx' = idx + 1
       /\ pc' = "item"
       /\ UNCHANGED finalized
  ELSE /\ pc' = "waitClose"
       /\ finalized' = TRUE
       /\ UNCHANGED idx

\* archive.file(outputPath, {name}); results.push(outputPath); 'fileComplete'
\* (the tags of the processVideo call that returned are out of scope by now).
ItemOk ==
  /\ pc = "itemOk"
  /\ queue' = Append(queue, idx)
  /\ results' = results \cup {OutputPath(idx)}
  /\ ev' = Emit(ev, "fileComplete", idx, files)
  /\ tags' = NoTags
  /\ NextItem
  /\ UNCHANGED <<auxVars, songArtist, songAlbum, preFail, req, files, coverPath, songCoverPath, tempFiles, proc, entries,
                 jobState, delivered>>

\* Faulty variant of ItemCatch: the item's error is rethrown to the outer catch.
ItemCatchRethrows ==
  /\ pc = "itemCatch"
  /\ ev' = Emit(ev, "itemError", idx, files)
  /\ pc' = "outerCatch"
  /\ UNCHANGED <<auxVars, songArtist, songAlbum, tags, preFail, req, files, idx, coverPath, songCoverPath, tempFiles, results,
                 proc, queue, entries, finalized, jobState, delivered>>

\* Faulty variant of ItemCatch: the failed item is attempted again.
ItemCatchRetries ==
  /\ pc = "itemCatch"
  /\ ev' = Emit(ev, "itemError", idx, files)
  /\ preFail' = {}
  /\ pc' = "item"
  /\ UNCHANGED <<auxVars, songArtist, songAlbum, tags, req, files, idx, coverPath, songCoverPath, tempFiles, results, proc,
                 queue, entries, finalized, jobState, delivered>>

\* The catch of the playlist loop: one per-item error event, then the loop goes
\* on (the failure is handled: preFail is forgotten).
ItemCatch ==
  /\ pc = "itemCatch"
  /\ ev' = Emit(ev, "itemError", idx, files)
  /\ preFail' = {}
  /\ NextItem
  /\ UNCHANGED <<auxVars, songArtist, songAlbum, tags, req, files, coverPath, songCoverPath, tempFiles, results, proc,
                 queue, entries, jobState, delivered>>

\* The archiver reads a queued file when its turn comes: a file that is gone by
\* then is skipped, any other becomes the next entry of the archive.
ArchiverRead ==
  /\ queue # <<>>
  /\ queue' = Tail(queue)
  /\ entries' = IF OutputPath(Head(queue)) \in files
                THEN Append(entries, Head(queue)) ELSE entries
  /\ UNCHANGED <<auxVars, songArtist, songAlbum, tags, preFail, req, files, pc, idx, coverPath, songCoverPath, tempFiles,
                 results, proc, finalized, jobState, delivered, ev>>

\* output.on('close'): the finalized archive is written out and is sent.
OutputClose ==
  /\ pc = "waitClose" /\ finalized /\ queue = <<>>
  /\ pc' = "send"
  /\ UNCHANGED <<auxVars, songArtist, songAlbum, tags, preFail, req, files, idx, coverPath, songCoverPath, tempFiles, results,
                 proc, queue, entries, finalized, jobState, delivered, ev>>

\* The file sendFileInChunks is given.
SendTarget == IF Single THEN OutputPath(1) ELSE ZipPath

\* Where control goes when sendFileInChunks throws.
SendCatchPc == IF Single THEN "singleCatch" ELSE "batchFinally"

\* sendFileInChunks up to its loop: fs.statSync throws on a missing file,
\* otherwise 'downloadStart' is emitted (the tags of the processVideo call
\* that returned are out of scope by now).
SendStart ==
  /\ pc = "send"
  /\ IF SendTarget \in files
     THEN pc' = "sending" /\ UNCHANGED delivered
     ELSE pc' = SendCatchPc /\ delivered' = "failed"
  /\ tags' = NoTags
  /\ UNCHANGED <<auxVars, songArtist, songAlbum, preFail, req, files, idx, coverPath, songCoverPath, tempFiles, results,
                 proc, queue, entries, finalized, jobState, ev>>

\* The chunk loop of sendFileInChunks: every chunk is read, emitted and
\* acknowledged and 'downloadComplete' is emitted, or the read stream fails
\* and the for-await throws.
SendStream(ok) ==
  /\ pc = "sending"
  /\ IF ok
     THEN /\ ev' = Emit(ev, "downloadComplete", 0, files)
          /\ delivered' = "ok"
          /\ pc' = IF Single THEN "singleCleanup" ELSE "batchFinally"
     ELSE /\ delivered' = "failed"
          /\ pc' = SendCatchPc
          /\ UNCHANGED ev
  /\ UNCHANGED <<auxVars, songArtist, songAlbum, tags, preFail, req, files, idx, coverPath, songCoverPath, tempFiles, results,
                 proc, queue, entries, finalized, jobState>>

\* Faulty variant of SingleCleanup: coverPath is left out of the cleanup list.
SingleCleanupWithoutCover ==
  /\ pc = "singleCleanup"
  /\ files' = cleanup(files, {OutputPath(1)} \cup tempFiles)
  /\ pc' = "done"
  /\ UNCHANGED <<auxVars, songArtist, songAlbum, tags, preFail, req, idx, coverPath, songCoverPath, tempFiles, results, proc,
                 queue, entries, finalized, jobState, delivered, ev>>

\* Faulty variant of SingleCleanup: the cleanup after the delivery throws
\* into the catch of the branch.
SingleCleanupThrows ==
  /\ pc = "singleCleanup"
  /\ files' = cleanup(files, {OutputPath(1), coverPath} \cup tempFiles)
  /\ pc' = "singleCatch"
  /\ UNCHANGED <<auxVars, songArtist, songAlbum, tags, preFail, req, idx, coverPath, songCoverPath, tempFiles, results, proc,
                 queue, entries, finalized, jobState, delivered, ev>>

\* cleanup(outputPath, coverPath, ...tempFiles) after the delivery (single).
SingleCleanup ==
  /\ pc = "singleCleanup"
  /\ files' = cleanup(files, {OutputPath(1), coverPath} \cup tempFiles)
  /\ pc' = "done"
  /\ UNCHANGED <<auxVars, songArtist, songAlbum, tags, preFail, req, idx, coverPath, songCoverPath, tempFiles, results, proc,
                 queue, entries, finalized, jobState, delivered, ev>>

\* The catch of the single branch: 'error' is emitted, then
\* cleanup(...tempFiles, coverPath) (the failure is handled: preFail is
\* forgotten).
SingleCatch ==
  /\ pc = "singleCatch"
  /\ ev' = Emit(ev, "error", 0, files)
  /\ files' = cleanup(files, tempFiles \cup {coverPath})
  /\ preFail' = {}
  /\ pc' = "done"
  /\ UNCHANGED <<auxVars, songArtist, songAlbum, tags, req, idx, coverPath, songCoverPath, tempFiles, results, proc,
                 queue, entries, finalized, jobState, delivered>>

\* The finally of output.on('close'): cleanup(zipPath, ...tempFiles).
BatchFinally ==
  /\ pc = "batchFinally"
  /\ files' = cleanup(files, {ZipPath} \cup tempFiles)
  /\ pc' = "done"
  /\ UNCHANGED <<auxVars, songArtist, songAlbum, tags, preFail, req, idx, coverPath, songCoverPath, tempFiles, results, proc,
                 queue, entries, finalized, jobState, delivered, ev>>

\* The outer catch: 'error' is emitted, then
\* cleanup(...results, ...tempFiles, req.files?.cover?.[0]?.path).
OuterCatch ==
  /\ pc = "outerCatch"
  /\ ev' = Emit(ev, "error", 0, files)
  /\ files' = cleanup(files, results \cup tempFiles
                 \cup {IF req.upload # "none" THEN UploadPath ELSE NoPath})
  /\ pc' = "done"
  /\ UNCHANGED <<auxVars, songArtist, songAlbum, tags, preFail, req, idx, coverPath, songCoverPath, tempFiles, results, proc,
                 queue, entries, finalized, jobState, delivered>>

\* ---------------------------------------------------------------- sweep

\* One fs.unlink of a run of cleanupDirectory(TEMP_DIR): a name matching the
\* temp-file patterns is removed whatever its age.  The unlink is carried out
\* by the thread pool, so it takes effect at any point between two steps of
\* the request.
SweepUnlink(f) ==
  /\ f \in files
  /\ isTempFile(f)
  /\ files' = files \ {f}
  /\ UNCHANGED <<auxVars, songArtist, songAlbum, tags, preFail, req, pc, idx, coverPath, songCoverPath, tempFiles, results,
                 proc, queue, entries, finalized, jobState, delivered, ev>>

Sweep == \E f \in files : SweepUnlink(f)

\* ---------------------------------------------------------------- spec

\* The steps of the request: the handler, the subprocess and the archiver.
Request ==
  \/ HandleCover
  \/ \E ok \in BOOLEAN : SharedThumbReturn(ok)
  \/ Branch
  \/ ItemBegin
  \/ \E ok \in BOOLEAN, thumb \in BOOLEAN : ProbeReturn(ok, thumb)
  \/ \E ok \in BOOLEAN : ThumbReturn(ok)
  \/ Spawn
  \/ \E i \in Items : YtdlpWrite(i)
  \/ \E i \in Items, keep \in BOOLEAN : YtdlpConvert(i, keep)
  \/ \E code \in {0, 1} : YtdlpClose(code)
  \/ OutputCheck
  \/ \E outcome \in {"ok", "error", "throws"} : WriteTags(outcome)
  \/ ItemOk
  \/ ItemCatch
  \/ ArchiverRead
  \/ OutputClose
  \/ SendStart
  \/ \E ok \in BOOLEAN : SendStream(ok)
  \/ SingleCleanup
  \/ SingleCatch
  \/ BatchFinally
  \/ OuterCatch

Next == Request \/ Sweep

Spec == Init /\ [][Next]_vars

\* ---------------------------------------------------------------- progress

\* Number of output lines of the subprocess that are followed.
MaxLines == 3

PROGRESS_UPDATE_INTERVAL == 250

\* The period of the setInterval of emitFakeProgress.
FakeInterval == 700

\* let progress = null: no pattern matched the line.
NullProgress == -1

\* What extractAndEmitProgress parses out of a line: nothing, or a percentage.
ParsedValues == {NullProgress, 0, 40, 60, 95, 100}

\* Delays (ms) between two events of the subprocess.
Delays == {100, 300}

progressIntervals ==
  << [progress |-> 25, message |-> "Converting audio..."],
     [progress |-> 50, message |-> "Processing metadata..."],
     [progress |-> 75, message |-> "Finalizing..."] >>

Progress(status, progress, message) ==
  [status |-> status, progress |-> progress, message |-> message, at |-> now']

\* The pipeline variables while one processVideo call is followed on its own.
PipeFixed ==
  /\ req = [mode |-> "single", n |-> 1, upload |-> "none", coverUrl |-> FALSE,
            artist |-> "Artist X", album |-> "Album A", itemsValid |-> TRUE]
  /\ files = {}
  /\ pc = "run"
  /\ idx = 1
  /\ coverPath = NoPath
  /\ songCoverPath = NoPath
  /\ tempFiles = {}
  /\ results = {}
  /\ proc = [i \in Items |-> IF i = 1 THEN "running" ELSE "none"]
  /\ queue = <<>>
  /\ entries = <<>>
  /\ finalized = FALSE
  /\ jobState = [i \in Items |-> IF i = 1 THEN "running" ELSE "pending"]
  /\ delivered = "none"
  /\ ev = NoEvents
  /\ songArtist = Absent
  /\ songAlbum = Absent
  /\ tags = NoTags
  /\ preFail = {}

InitProgress == ProgIdle /\ PipeFixed /\ SendIdle /\ PairIdle /\ ToolIdle

\* processVideo up to its await: 'downloading' 0 is emitted, the subprocess is
\* spawned and lastProgressUpdate = Date.now().
ProgStart ==
  /\ ppc = "idle"
  /\ ppc' = "running"
  /\ now' = now
  /\ out' = Append(out, Progress("downloading", 0, ""))
  /\ lastProgressUpdate' = now
  /\ UNCHANGED <<halfwayMessageSent, downloadCompletedMessageSent,
                 intervalIndex, timerOn, lines, parsed, pipeVars, sendVars, pairVars, toolVars>>

\* extractAndEmitProgress(data) for a line arriving d ms after the last event,
\* out of which the patterns parse progress (NullProgress: no match).
extractAndEmitProgress(d, progress) ==
  /\ ppc = "running"
  /\ lines < MaxLines
  /\ lines' = lines + 1
  /\ parsed' = IF progress = NullProgress THEN parsed ELSE Append(parsed, progress)
  /\ now' = now + d
  /\ IF progress # NullProgress /\ now' - lastProgressUpdate > PROGRESS_UPDATE_INTERVAL
     THEN /\ lastProgressUpdate' = now'
          /\ IF progress > 90 /\ ~downloadCompletedMessageSent
             THEN /\ out' = out \o << Progress("downloading", progress, ""),
                                      Progress("downloading", progress, "almost") >>
                  /\ downloadCompletedMessageSent' = TRUE
                  /\ UNCHANGED halfwayMessageSent
             ELSE IF progress > 50 /\ ~halfwayMessageSent
                  THEN /\ out' = out \o << Progress("downloading", progress, ""),
                                           Progress("downloading", progress, "halfway") >>
                       /\ halfwayMessageSent' = TRUE
                       /\ UNCHANGED downloadCompletedMessageSent
                  ELSE /\ out' = Append(out, Progress("downloading", progress, ""))
                       /\ UNCHANGED <<halfwayMessageSent, downloadCompletedMessageSent>>
     ELSE UNCHANGED <<lastProgressUpdate, out, halfwayMessageSent,
                      downloadCompletedMessageSent>>
  /\ UNCHANGED <<ppc, intervalIndex, timerOn, pipeVars, sendVars, pairVars, toolVars>>

\* ytdlp.on('close'), d ms after the last event.  Code 0: emitFakeProgress()
\* arms its interval (its own 'close' listener is added after the event, so
\* nothing clears the interval early) and 'processing' 100 is emitted.  Any
\* other code rejects: nothing more is emitted by processVideo.  What
\* follows the await is synchronous (existsSync, the tag writer, unlinkSync),
\* and so is the caller up to its next await ('fileComplete' or the per-item
\* error of the playlist loop, the start of sendFileInChunks): once ppc is
\* "closed" the job has returned or thrown and the caller has gone on.
ProgClose(d, code) ==
  /\ ppc = "running"
  /\ ppc' = "closed"
  /\ now' = now + d
  /\ IF code = 0
     THEN /\ timerOn' = TRUE
          /\ out' = Append(out, Progress("processing", 100, ""))
     ELSE UNCHANGED <<timerOn, out>>
  /\ UNCHANGED <<lastProgressUpdate, halfwayMessageSent,
                 downloadCompletedMessageSent, intervalIndex, lines, parsed,
                 pipeVars, sendVars, pairVars, toolVars>>

\* One firing of the interval of emitFakeProgress.
emitFakeProgress ==
  /\ timerOn
  /\ now' = now + FakeInterval
  /\ IF intervalIndex < Len(progressIntervals)
     THEN /\ out' = Append(out, Progress("processing",
                       progressIntervals[intervalIndex + 1].progress,
                       progressIntervals[intervalIndex + 1].message))
          /\ intervalIndex' = intervalIndex + 1
          /\ UNCHANGED timerOn
     ELSE /\ timerOn' = FALSE
          /\ UNCHANGED <<out, intervalIndex>>
  /\ UNCHANGED <<ppc, lastProgressUpdate, halfwayMessageSent,
                 downloadCompletedMessageSent, lines, parsed, pipeVars, sendVars,
                 pairVars, toolVars>>

NextProgress ==
  \/ ProgStart
  \/ \E d \in Delays, p \in ParsedValues : extractAndEmitProgress(d, p)
  \/ \E d \in Delays, code \in {0, 1} : ProgClose(d, code)
  \/ emitFakeProgress

SpecProgress == InitProgress /\ [][NextProgress]_vars

\* ---------------------------------------------------------------- delivery

\* Largest number of chunks of a delivered file.
MaxChunks == 3

\* const chunkSize = 1024 * 1024
chunkSize == 1048576

\* fileStats.size: an empty file, and files whose last chunk is one byte,
\* half a chunk, one byte short of a chunk or a whole chunk.
FileSizes ==
  {0} \cup {k * chunkSize + r : k \in 0..(MaxChunks - 1),
                                r \in {1, chunkSize \div 2, chunkSize - 1, chunkSize}}

\* The pipeline variables while one call of sendFileInChunks is followed on
\* its own: the single-item job has completed and its output is being sent.
PipeSending ==
  /\ req = [mode |-> "single", n |-> 1, upload |-> "none", coverUrl |-> FALSE,
            artist |-> "Artist X", album |-> "Album A", itemsValid |-> TRUE]
  /\ files = {File("J", 1, "mp3")}
  /\ pc = "sending"
  /\ idx = 1
  /\ coverPath = NoPath
  /\ songCoverPath = NoPath
  /\ tempFiles = {}
  /\ results = {}
  /\ proc = [i \in Items |-> "none"]
  /\ queue = <<>>
  /\ entries = <<>>
  /\ finalized = FALSE
  /\ jobState = [i \in Items |-> IF i = 1 THEN "completed" ELSE "pending"]
  /\ delivered = "none"
  /\ ev = NoEvents
  /\ songArtist = Absent
  /\ songAlbum = Absent
  /\ tags = NoTags
  /\ preFail = {}

InitSend ==
  /\ ProgIdle /\ PipeSending /\ PairIdle /\ ToolIdle
  /\ spc = "idle"
  /\ fileSize \in FileSizes
  /\ bytesSent = 0
  /\ chan = <<>>

\* Number of 'downloadChunk' events emitted so far.
ChunksEmitted == Cardinality({p \in 1..Len(chan) : chan[p].type = "chunk"})

\* Number of chunks the consumer has acknowledged so far.
ChunksAcked == Cardinality({p \in 1..Len(chan) : chan[p].type = "ack"})

\* sendFileInChunks up to its loop: the read stream is created, fs.statSync
\* throws when the file is gone, otherwise 'downloadStart' is emitted.
SendOpen(exists) ==
  /\ spc = "idle"
  /\ IF exists
     THEN /\ chan' = Append(chan, [type |-> "start", k |-> 0, progress |-> 0])
          /\ spc' = "loop"
     ELSE /\ spc' = "thrown"
          /\ UNCHANGED chan
  /\ UNCHANGED <<fileSize, bytesSent, pipeVars, progVars, pairVars, toolVars>>

\* Faulty variant of ChunkProgress: the percentage is computed before the
\* chunk at hand is counted.
ChunkProgressBeforeCount(sent) ==
  LET len == IF sent % chunkSize = 0 THEN chunkSize ELSE sent % chunkSize
  IN ((sent - len) * 100) \div fileSize

\* (bytesSent / fileStats.size) * 100, rounded down to a whole percentage.
ChunkProgress(sent) == (sent * 100) \div fileSize

\* Faulty variant of SendChunk: the chunk is emitted without waiting for its
\* acknowledgement.
SendChunkWithoutAwait(ok) ==
  /\ spc = "loop"
  /\ IF ~ok
     THEN /\ spc' = "thrown"
          /\ UNCHANGED <<bytesSent, chan>>
     ELSE IF bytesSent < fileSize
          THEN LET len == IF fileSize - bytesSent < chunkSize
                          THEN fileSize - bytesSent ELSE chunkSize
               IN /\ bytesSent' = bytesSent + len
                  /\ chan' = Append(chan, [type |-> "chunk", k |-> ChunksEmitted + 1,
                                           progress |-> ChunkProgress(bytesSent + len)])
                  /\ spc' = "loop"
          ELSE /\ chan' = Append(chan, [type |-> "complete", k |-> 0, progress |-> 100])
               /\ spc' = "done"
               /\ UNCHANGED bytesSent
  /\ UNCHANGED <<fileSize, pipeVars, progVars, pairVars, toolVars>>

\* One turn of the for-await loop: the stream yields the next chunk of at
\* most chunkSize bytes, which is emitted as 'downloadChunk' with a callback
\* and awaited; or the stream has ended and 'downloadComplete' is emitted; or
\* the read fails and the loop throws.
SendChunk(ok) ==
  /\ spc = "loop"
  /\ IF ~ok
     THEN /\ spc' = "thrown"
          /\ UNCHANGED <<bytesSent, chan>>
     ELSE IF bytesSent < fileSize
          THEN LET len == IF fileSize - bytesSent < chunkSize
                          THEN fileSize - bytesSent ELSE chunkSize
               IN /\ bytesSent' = bytesSent + len
                  /\ chan' = Append(chan, [type |-> "chunk", k |-> ChunksEmitted + 1,
                                           progress |-> ChunkProgress(bytesSent + len)])
                  /\ spc' = "await"
          ELSE /\ chan' = Append(chan, [type |-> "complete", k |-> 0, progress |-> 100])
               /\ spc' = "done"
               /\ UNCHANGED bytesSent
  /\ UNCHANGED <<fileSize, pipeVars, progVars, pairVars, toolVars>>

\* The consumer acknowledges the oldest chunk it has not acknowledged yet:
\* the callback given to emit is called, which resolves the awaited promise.
ConsumerAck ==
  /\ ChunksAcked < ChunksEmitted
  /\ chan' = Append(chan, [type |-> "ack", k |-> ChunksAcked + 1, progress |-> 0])
  /\ spc' = IF spc = "await" THEN "loop" ELSE spc
  /\ UNCHANGED <<fileSize, bytesSent, pipeVars, progVars, pairVars, toolVars>>

NextSend ==
  \/ \E exists \in BOOLEAN : SendOpen(exists)
  \/ \E ok \in BOOLEAN : SendChunk(ok)
  \/ ConsumerAck

SpecSend == InitSend /\ [][NextSend]_vars

\* ---------------------------------------------------------------- delivery to the end

\* The await of sendFileInChunks in the single-item branch settles: after a
\* return the handler goes on to its cleanup, after a throw to its catch.
\* The pipeline's record of the delivery (delivered, ev) is set as SendStream
\* sets it.
SendSettled ==
  /\ pc = "sending"
  /\ spc \in {"done", "thrown"}
  /\ IF spc = "done"
     THEN /\ ev' = Emit(ev, "downloadComplete", 0, files)
          /\ delivered' = "ok"
          /\ pc' = "singleCleanup"
     ELSE /\ delivered' = "failed"
          /\ pc' = "singleCatch"
          /\ UNCHANGED ev
  /\ UNCHANGED <<auxVars, songArtist, songAlbum, tags, preFail, req, files, idx,
                 coverPath, songCoverPath, tempFiles, results, proc, queue,
                 entries, finalized, jobState>>

NextDeliver ==
  \/ \E exists \in BOOLEAN : SendOpen(exists)
  \/ \E ok \in BOOLEAN : SendChunk(ok)
  \/ ConsumerAck
  \/ SendSettled
  \/ SingleCleanup
  \/ SingleCatch

\* The delivery of SpecSend followed by the handler's continuation, with the
\* steps that are bound to happen: the function runs on, the read stream
\* yields its next chunk or fails, a settled await resumes, and the consumer
\* acknowledges every chunk it was sent.
SpecDeliver ==
  /\ InitSend
  /\ [][NextDeliver]_vars
  /\ WF_vars(\E exists \in BOOLEAN : SendOpen(exists))
  /\ WF_vars(\E ok \in BOOLEAN : SendChunk(ok))
  /\ WF_vars(ConsumerAck)
  /\ WF_vars(SendSettled)
  /\ WF_vars(SingleCleanup)
  /\ WF_vars(SingleCatch)

\* ---------------------------------------------------------------- two requests

\* Two single-item requests in flight at once (for any URLs, the same one
\* included: no name in TEMP_DIR depends on the URL).
Reqs == {1, 2}

\* What the two requests come with: an uploaded cover, a cover URL, or neither.
PairInputs ==
  {[upload |-> "none", coverUrl |-> FALSE], [upload |-> "none", coverUrl |-> TRUE],
   [upload |-> "jpg", coverUrl |-> FALSE]}

\* uuidv4(): a value that was never returned before.
NewUuid == <<"P", uuids + 1>>

\* The variables of the pipeline of one request, other than TEMP_DIR, which
\* the pair of requests leaves alone.
pairFixed == <<req, pc, idx, coverPath, songCoverPath, tempFiles, results, proc,
               queue, entries, finalized, jobState, delivered, ev, songArtist,
               songAlbum, tags, preFail, progVars, sendVars, toolVars>>

InitPair ==
  /\ ProgIdle /\ SendIdle /\ ToolIdle
  /\ req = [mode |-> "single", n |-> 1, upload |-> "none", coverUrl |-> FALSE,
            artist |-> "Artist X", album |-> "Album A", itemsValid |-> TRUE]
  /\ pc = "done"
  /\ idx = 1
  /\ coverPath = NoPath
  /\ songCoverPath = NoPath
  /\ tempFiles = {}
  /\ results = {}
  /\ proc = [i \in Items |-> "none"]
  /\ queue = <<>>
  /\ entries = <<>>
  /\ finalized = FALSE
  /\ jobState = [i \in Items |-> "pending"]
  /\ delivered = "none"
  /\ ev = NoEvents
  /\ songArtist = Absent
  /\ songAlbum = Absent
  /\ tags = NoTags
  /\ preFail = {}
  /\ files = {}
  /\ uuids = 0
  /\ \E in \in [Reqs -> PairInputs] :
        rq = [r \in Reqs |->
               [pc |-> "new", upload |-> in[r].upload, coverUrl |-> in[r].coverUrl,
                coverPath |-> NoPath, tempFiles |-> {}, outputPath |-> NoPath,
                tempWebmPath |-> NoPath, proc |-> "none", own |-> {}]]

\* Request r after a cleanup call of its own that turned TEMP_DIR into fs:
\* what the call deleted is no longer r's.
AfterCleanup(r, fs, at) ==
  [rq EXCEPT ![r].pc = at, ![r].own = @ \ (files \ fs)]

\* The request arrives: multer stores an uploaded cover under a new uuid, and
\* the handler takes it as coverPath.
PairArrive(r) ==
  /\ rq[r].pc = "new"
  /\ IF rq[r].upload # "none"
     THEN LET f == [id |-> NewUuid, ext |-> rq[r].upload]
          IN /\ files' = files \cup {f}
             /\ uuids' = uuids + 1
             /\ rq' = [rq EXCEPT ![r].pc = "spawn", ![r].coverPath = f,
                                 ![r].own = @ \cup {f}]
     ELSE /\ rq' = [rq EXCEPT ![r].pc = IF rq[r].coverUrl THEN "cover" ELSE "thumb"]
          /\ UNCHANGED <<files, uuids>>
  /\ UNCHANGED pairFixed

\* coverPath = await downloadThumbnail(...); if (coverPath) tempFiles.push(..):
\* for the cover URL of the request (at "cover"), and for the thumbnail of the
\* video when there is still no cover (at "thumb"; a failed metadata probe is
\* a failed fetch).
PairThumb(r, ok) ==
  /\ rq[r].pc \in {"cover", "thumb"}
  /\ IF ok
     THEN LET f == [id |-> NewUuid, ext |-> "jpg"]
          IN /\ files' = files \cup {f}
             /\ uuids' = uuids + 1
             /\ rq' = [rq EXCEPT ![r].pc = "spawn", ![r].coverPath = f,
                                 ![r].tempFiles = @ \cup {f},
                                 ![r].own = @ \cup {f}]
     ELSE /\ rq' = [rq EXCEPT ![r].pc = IF rq[r].pc = "cover" THEN "thumb"
                                       ELSE "spawn"]
          /\ UNCHANGED <<files, uuids>>
  /\ UNCHANGED pairFixed

\* processVideo up to its await: outputId = uuidv4() names outputPath and
\* tempWebmPath, and the subprocess is spawned.
PairSpawn(r) ==
  /\ rq[r].pc = "spawn"
  /\ uuids' = uuids + 1
  /\ rq' = [rq EXCEPT ![r].pc = "run", ![r].proc = "running",
                      ![r].outputPath = [id |-> NewUuid, ext |-> "mp3"],
                      ![r].tempWebmPath = [id |-> NewUuid, ext |-> "webm"]]
  /\ UNCHANGED <<files, pairFixed>>

\* The subprocess of r writes the download to tempWebmPath.
PairWrite(r) ==
  /\ rq[r].proc = "running"
  /\ files' = files \cup {rq[r].tempWebmPath}
  /\ rq' = [rq EXCEPT ![r].proc = "written", ![r].own = @ \cup {rq[r].tempWebmPath}]
  /\ UNCHANGED <<uuids, pairFixed>>

\* The subprocess of r transcodes the download and removes or keeps it.
PairConvert(r, keep) ==
  /\ rq[r].proc = "written"
  /\ rq[r].tempWebmPath \in files
  /\ files' = (files \cup {rq[r].outputPath})
               \ (IF keep THEN {} ELSE {rq[r].tempWebmPath})
  /\ rq' = [rq EXCEPT ![r].proc = "converted",
                      ![r].own = (@ \cup {rq[r].outputPath})
                                 \ (IF keep THEN {} ELSE {rq[r].tempWebmPath})]
  /\ UNCHANGED <<uuids, pairFixed>>

\* ytdlp.on('close') of r: code 0 resolves; any other code rejects and the
\* catch of processVideo runs cleanup(outputPath, tempWebmPath).
PairClose(r, code) ==
  /\ rq[r].pc = "run" /\ rq[r].proc # "none"
  /\ IF code = 0
     THEN /\ rq' = [rq EXCEPT ![r].pc = "closed", ![r].proc = "none"]
          /\ UNCHANGED files
     ELSE LET fs == cleanup(files, {rq[r].outputPath, rq[r].tempWebmPath})
          IN /\ files' = fs
             /\ rq' = [AfterCleanup(r, fs, "catch") EXCEPT ![r].proc = "none"]
  /\ UNCHANGED <<uuids, pairFixed>>

\* processVideo of r after the await: a missing output or a throw of the tag
\* writer goes through the catch; otherwise a leftover tempWebmPath is
\* unlinked and outputPath is returned.
PairFinish(r, throws) ==
  /\ rq[r].pc = "closed"
  /\ IF rq[r].outputPath \notin files \/ throws
     THEN LET fs == cleanup(files, {rq[r].outputPath, rq[r].tempWebmPath})
          IN /\ files' = fs
             /\ rq' = AfterCleanup(r, fs, "catch")
     ELSE LET fs == files \ {rq[r].tempWebmPath}
          IN /\ files' = fs
             /\ rq' = AfterCleanup(r, fs, "send")
  /\ UNCHANGED <<uuids, pairFixed>>

\* await sendFileInChunks(socket, outputPath, safeFilename) of r: it returns,
\* or it throws.
PairSend(r, ok) ==
  /\ rq[r].pc = "send"
  /\ rq' = [rq EXCEPT ![r].pc = IF ok THEN "cleanup" ELSE "catch"]
  /\ UNCHANGED <<files, uuids, pairFixed>>

\* cleanup(outputPath, coverPath, ...tempFiles) of r after its delivery.
PairCleanup(r) ==
  /\ rq[r].pc = "cleanup"
  /\ LET fs == cleanup(files, {rq[r].outputPath, rq[r].coverPath}
                                \cup rq[r].tempFiles)
     IN /\ files' = fs
        /\ rq' = AfterCleanup(r, fs, "done")
  /\ UNCHANGED <<uuids, pairFixed>>

\* The catch of the single branch of r: cleanup(...tempFiles, coverPath).
PairCatch(r) ==
  /\ rq[r].pc = "catch"
  /\ LET fs == cleanup(files, rq[r].tempFiles \cup {rq[r].coverPath})
     IN /\ files' = fs
        /\ rq' = AfterCleanup(r, fs, "done")
  /\ UNCHANGED <<uuids, pairFixed>>

NextPair ==
  \E r \in Reqs :
    \/ PairArrive(r)
    \/ \E ok \in BOOLEAN : PairThumb(r, ok)
    \/ PairSpawn(r)
    \/ PairWrite(r)
    \/ \E keep \in BOOLEAN : PairConvert(r, keep)
    \/ \E code \in {0, 1} : PairClose(r, code)
    \/ \E throws \in BOOLEAN : PairFinish(r, throws)
    \/ \E ok \in BOOLEAN : PairSend(r, ok)
    \/ PairCleanup(r)
    \/ PairCatch(r)

SpecPair == InitPair /\ [][NextPair]_vars

\* ---------------------------------------------------------------- scheduled cleanup

\* Largest number of entries of the directories besides the server's own.
MaxEntries == 2

MAX_AGE == 7200000

\* TEMP_DIR, __dirname and path.join(__dirname, '..').
TEMP_DIR == "src/temp"
DirName == "src/lib"
ParentDir == "src"

\* A subdirectory of TEMP_DIR.
SubDir == "src/temp/sub"

\* An entry of directory d: a file named "<id>.<ext>" whose mtime lies age ms
\* back, or a subdirectory named ext.
Entry(d, id, ext, kind, age) ==
  [dir |-> d, id |-> id, ext |-> ext, kind |-> kind, age |-> age]

\* What the server's installation always has: lib and temp under src, and
\* the server's source file in lib.
LibEntry == Entry(ParentDir, <<"name", 0>>, "lib", "dir", 0)
TempEntry == Entry(ParentDir, <<"name", 0>>, "temp", "dir", 0)
ServerJs(age) == Entry(DirName, <<"name", 1>>, "js", "file", age)

SubEntry == Entry(TEMP_DIR, <<"name", 0>>, "sub", "dir", 0)

\* Ages (ms) of the files when the run looks at them.
Ages == {0, MAX_AGE, MAX_AGE + 1}

\* Files that may lie in the three directories, and in the subdirectory.
OtherEntries ==
  {Entry(d, n[1], n[2], "file", a) :
     d \in {TEMP_DIR, DirName, ParentDir},
     n \in {<< <<"J", 1>>, "mp3" >>, << <<"name", 2>>, "webm" >>,
            << <<"U", 0>>, "png" >>},
     a \in {0, MAX_AGE + 1}}
  \cup {SubEntry, Entry(SubDir, <<"name", 2>>, "webm", "file", MAX_AGE + 1)}

\* No two entries of a directory share a name, and a subdirectory has content
\* only if it exists.
WellFormed(t) ==
  /\ \A e, f \in t : (e.dir = f.dir /\ e.id = f.id /\ e.ext = f.ext) => e = f
  /\ \A e \in t : e.dir = SubDir => SubEntry \in t

Trees ==
  {{LibEntry, TempEntry, ServerJs(a)} \cup t :
     a \in Ages,
     t \in {x \in SUBSET OtherEntries : Cardinality(x) <= MaxEntries /\ WellFormed(x)}}

\* The pipeline variables while no request is in flight.
PipeIdle ==
  /\ req = [mode |-> "single", n |-> 1, upload |-> "none", coverUrl |-> FALSE,
            artist |-> "Artist X", album |-> "Album A", itemsValid |-> TRUE]
  /\ files = {}
  /\ pc = "done"
  /\ idx = 1
  /\ coverPath = NoPath
  /\ songCoverPath = NoPath
  /\ tempFiles = {}
  /\ results = {}
  /\ proc = [i \in Items |-> "none"]
  /\ queue = <<>>
  /\ entries = <<>>
  /\ finalized = FALSE
  /\ jobState = [i \in Items |-> "pending"]
  /\ delivered = "none"
  /\ ev = NoEvents
  /\ songArtist = Absent
  /\ songAlbum = Absent
  /\ tags = NoTags
  /\ preFail = {}

\* The request handler and its parts are not running.
OthersIdle ==
  PipeIdle /\ ProgIdle /\ SendIdle /\ PairIdle /\ ThumbIdle /\ NameIdle /\ DirIdle

otherVars == <<pipeVars, progVars, sendVars, pairVars, thumbVars, nameVars, dirVars>>

InitSweep ==
  /\ OthersIdle /\ ParseIdle /\ CleanIdle /\ MetaIdle
  /\ tree \in Trees
  /\ tree0 = tree
  /\ swpc = "idle"
  /\ pathsToClean = <<>>
  /\ statting = {}
  /\ unlinking = {}
  /\ cleaned = 0
  /\ totalCleaned = 0
  /\ resolved = <<>>

\* The variables the scheduled cleanup leaves alone.
sweepFixed == <<otherVars, parseVars, cleanVars, metaVars>>

\* The callback of cleanupInterval fires: pathsToClean is set up.
CleanupTick ==
  /\ swpc = "idle"
  /\ swpc' = "next"
  /\ pathsToClean' = <<TEMP_DIR, DirName, ParentDir>>
  /\ totalCleaned' = 0
  /\ UNCHANGED <<tree, tree0, statting, unlinking, cleaned, resolved, sweepFixed>>

\* resolve(cleaned) of cleanupDirectory and the run's continuation after its
\* await: the count is added up and the loop moves to the next directory.
Resolve(count) ==
  /\ resolved' = Append(resolved, count)
  /\ totalCleaned' = totalCleaned + count
  /\ pathsToClean' = Tail(pathsToClean)
  /\ swpc' = "next"

\* cleanupDirectory(dirPath): the callback of fs.readdir.  Directories are
\* skipped at once (isRecursive is false), fs.stat is started for every other
\* entry; without such an entry the call resolves with 0.
CleanupDirectoryRead ==
  /\ swpc = "next"
  /\ pathsToClean # <<>>
  /\ LET found == {e \in tree : e.dir = Head(pathsToClean)}
         toStat == {e \in found : e.kind # "dir"}
     IN IF toStat = {}
        THEN /\ Resolve(0)
             /\ UNCHANGED <<statting, cleaned>>
        ELSE /\ statting' = toStat
             /\ cleaned' = 0
             /\ swpc' = "entries"
             /\ UNCHANGED <<resolved, totalCleaned, pathsToClean>>
  /\ UNCHANGED <<tree, tree0, unlinking, sweepFixed>>

\* Faulty variant of CleanupDirectoryStat: a file is unlinked only if it both
\* matches a pattern and is old.
CleanupDirectoryStatBoth(e) ==
  /\ swpc = "entries"
  /\ e \in statting
  /\ statting' = statting \ {e}
  /\ IF isTempFile(e) /\ e.age > MAX_AGE
     THEN /\ unlinking' = unlinking \cup {e}
          /\ UNCHANGED <<swpc, resolved, totalCleaned, pathsToClean>>
     ELSE /\ UNCHANGED unlinking
          /\ IF statting' = {} /\ unlinking = {}
             THEN Resolve(cleaned)
             ELSE UNCHANGED <<swpc, resolved, totalCleaned, pathsToClean>>
  /\ UNCHANGED <<tree, tree0, cleaned, sweepFixed>>

\* The callback of fs.stat for entry e: fs.unlink is started if the name is
\* that of a temp file or the file is older than MAX_AGE; otherwise pending is
\* decremented, and the call resolves when it reaches 0.
CleanupDirectoryStat(e) ==
  /\ swpc = "entries"
  /\ e \in statting
  /\ statting' = statting \ {e}
  /\ IF isTempFile(e) \/ e.age > MAX_AGE
     THEN /\ unlinking' = unlinking \cup {e}
          /\ UNCHANGED <<swpc, resolved, totalCleaned, pathsToClean>>
     ELSE /\ UNCHANGED unlinking
          /\ IF statting' = {} /\ unlinking = {}
             THEN Resolve(cleaned)
             ELSE UNCHANGED <<swpc, resolved, totalCleaned, pathsToClean>>
  /\ UNCHANGED <<tree, tree0, cleaned, sweepFixed>>

\* The callback of fs.unlink for entry e: the file is gone, cleaned and
\* pending are updated, and the call resolves when pending reaches 0.
CleanupDirectoryUnlink(e) ==
  /\ swpc = "entries"
  /\ e \in unlinking
  /\ unlinking' = unlinking \ {e}
  /\ tree' = tree \ {e}
  /\ cleaned' = cleaned + 1
  /\ IF statting = {} /\ unlinking' = {}
     THEN Resolve(cleaned')
     ELSE UNCHANGED <<swpc, resolved, totalCleaned, pathsToClean>>
  /\ UNCHANGED <<tree0, statting, sweepFixed>>

\* The loop over pathsToClean has ended.
CleanupTickEnd ==
  /\ swpc = "next"
  /\ pathsToClean = <<>>
  /\ swpc' = "done"
  /\ UNCHANGED <<tree, tree0, pathsToClean, statting, unlinking, cleaned,
                 totalCleaned, resolved, sweepFixed>>

NextSweep ==
  \/ CleanupTick
  \/ CleanupDirectoryRead
  \/ \E e \in statting : CleanupDirectoryStat(e)
  \/ \E e \in unlinking : CleanupDirectoryUnlink(e)
  \/ CleanupTickEnd

SpecSweep == InitSweep /\ [][NextSweep]_vars

\* ---------------------------------------------------------------- progress patterns

\* The lines given to extractAndEmitProgress, as the tokens its patterns look
\* for: "[download]" or "[ffmpeg]" in front (tag), a number followed by "%"
\* (pct, -1 if there is none; decimal if it is written with a decimal point),
\* " of <size>MiB" behind it (of), and "frame=<n> ... time=<h>:<m>:<s>"
\* (frame).  The seconds are multiples of 3, so that the quotient by
\* estimatedDuration is a whole percentage.
Lines ==
  {l \in [tag : {"download", "ffmpeg", "none"}, pct : {-1, 0, 50, 100, 150},
          decimal : BOOLEAN, of : BOOLEAN, frame : BOOLEAN,
          h : {0, 1}, m : {0, 2, 4, 5}, s : {0, 30, 57}] :
     /\ l.pct = -1 => (~l.decimal /\ ~l.of)
     /\ ~l.frame => (l.h = 0 /\ l.m = 0 /\ l.s = 0)}

\* data.match(progressPatterns[k]).
Match(k, l) ==
  CASE k = 1 -> l.tag = "download" /\ l.pct >= 0
    [] k = 2 -> l.tag = "download" /\ l.pct >= 0 /\ l.decimal /\ l.of
    [] k = 3 -> l.tag = "ffmpeg" /\ l.pct >= 0 /\ ~l.decimal
    [] k = 4 -> l.pct >= 0 /\ l.decimal /\ l.of
    [] k = 5 -> l.frame

\* The first pattern that matches the line (0: none does).
FirstMatch(l) ==
  IF \E k \in 1..5 : Match(k, l)
  THEN CHOOSE k \in 1..5 : Match(k, l) /\ \A j \in 1..(k - 1) : ~Match(j, l)
  ELSE 0

estimatedDuration == 300

\* The loop over progressPatterns: the elapsed time of a frame line against
\* estimatedDuration, at most 99; for any other pattern parseFloat(match[1]).
ParseProgress(l) ==
  LET k == FirstMatch(l)
      totalSeconds == l.h * 3600 + l.m * 60 + l.s
      estimate == (totalSeconds * 100) \div estimatedDuration
  IN IF k = 0 THEN NullProgress
     ELSE IF k = 5 THEN (IF estimate < 99 THEN estimate ELSE 99)
     ELSE l.pct

InitParse ==
  /\ OthersIdle /\ SweepIdle /\ CleanIdle /\ MetaIdle
  /\ line \in Lines
  /\ parsePc = "idle"
  /\ parseOut = NullProgress

\* extractAndEmitProgress(data) up to the end of its loop.
ParseLine ==
  /\ parsePc = "idle"
  /\ parsePc' = "done"
  /\ parseOut' = ParseProgress(line)
  /\ UNCHANGED <<line, otherVars, sweepVars, cleanVars, metaVars>>

NextParse == ParseLine

SpecParse == InitParse /\ [][NextParse]_vars

\* ---------------------------------------------------------------- one call of cleanup

\* Largest number of paths given to cleanup.
MaxPaths == 2

\* The names that may lie in the directory: uuid-named ones of two uuids and
\* others ("cover.mp3", "cover.jpg", "cover.png").
CleanNames ==
  {File("J", 1, "mp3"), File("J", 1, "webm"), File("J", 1, "png"),
   File("name", 1, "mp3"), File("name", 1, "jpg"), File("name", 1, "png"),
   File("J", 2, "mp3")}

\* What cleanup may be given: nothing (null, undefined) or a path.
CleanPaths ==
  {NoPath, File("J", 1, "mp3"), File("J", 1, "png"), File("name", 1, "mp3"),
   File("name", 1, "png")}

RECURSIVE SeqsUpTo(_, _)
SeqsUpTo(S, n) ==
  IF n = 0 THEN {<<>>}
  ELSE SeqsUpTo(S, n - 1) \cup
       {Append(q, x) : q \in {r \in SeqsUpTo(S, n - 1) : Len(r) = n - 1}, x \in S}

InitClean ==
  /\ OthersIdle /\ SweepIdle /\ ParseIdle /\ MetaIdle
  /\ cdir \in SUBSET CleanNames
  /\ cdir0 = cdir
  /\ filePaths \in SeqsUpTo(CleanPaths, MaxPaths)
  /\ cpos = 0
  /\ unlinkFails \in {{}} \cup {{f} : f \in cdir}
  /\ craised = FALSE
  /\ cfailed = {}

cleanFixed == <<otherVars, sweepVars, parseVars, metaVars>>

\* cleanup(...filePaths) is called.
CleanupCall ==
  /\ cpos = 0
  /\ cpos' = 1
  /\ UNCHANGED <<cdir, cdir0, filePaths, unlinkFails, craised, cfailed, cleanFixed>>

\* What one iteration of filePaths.forEach leaves of directory d for path p,
\* and whether a filesystem call threw in it: [dir, threw].  The path is
\* unlinked if it exists, then its variants in order, then the related
\* files in the order of fs.readdirSync (any order); the first unlinkSync that
\* throws ends the iteration (its try block, or the inner one of the related
\* files).
Iterations(d, p) ==
  IF p = NoPath THEN {[dir |-> d, threw |-> FALSE]}
  ELSE IF p \in d /\ p \in unlinkFails THEN {[dir |-> d, threw |-> TRUE]}
  ELSE
    LET d1 == d \ {p}
        bad == {k \in 1..Len(extensions) :
                  VariantAt(p, k) \in d1 /\ VariantAt(p, k) \in unlinkFails}
    IN IF bad # {}
       THEN LET k1 == CHOOSE k \in bad : \A j \in bad : k <= j
            IN {[dir |-> d1 \ {VariantAt(p, j) : j \in 1..(k1 - 1)}, threw |-> TRUE]}
       ELSE LET d2 == d1 \ Variants(p)
                rel == Related(d2, p)
            IN IF rel \cap unlinkFails = {}
               THEN {[dir |-> d2 \ rel, threw |-> FALSE]}
               ELSE {[dir |-> d2 \ done, threw |-> TRUE] :
                       done \in SUBSET (rel \ unlinkFails)}

\* Faulty variant of CleanupStep: no try around the body of the iteration.
CleanupStepUncaught ==
  /\ cpos \in 1..Len(filePaths)
  /\ \E it \in Iterations(cdir, filePaths[cpos]) :
        /\ cdir' = it.dir
        /\ cfailed' = IF it.threw THEN cfailed \cup {cpos} ELSE cfailed
        /\ craised' = (craised \/ it.threw)
        /\ cpos' = IF it.threw THEN Len(filePaths) + 1 ELSE cpos + 1
  /\ UNCHANGED <<cdir0, filePaths, unlinkFails, cleanFixed>>

\* One iteration of filePaths.forEach: whatever throws in it is caught and
\* logged, and the loop goes on with the next path.
CleanupStep ==
  /\ cpos \in 1..Len(filePaths)
  /\ \E it \in Iterations(cdir, filePaths[cpos]) :
        /\ cdir' = it.dir
        /\ cfailed' = IF it.threw THEN cfailed \cup {cpos} ELSE cfailed
  /\ cpos' = cpos + 1
  /\ UNCHANGED <<cdir0, filePaths, unlinkFails, craised, cleanFixed>>

NextClean == CleanupCall \/ CleanupStep

SpecClean == InitClean /\ [][NextClean]_vars

\* ---------------------------------------------------------------- one call of getVideoMetadata

\* The file "<tempId>.<e>" the probe writes into TEMP_DIR.
TempIdFile(e) == File("M", 0, e)

\* What a call meets: whether the url looks like a playlist (list= without
\* v=); how the --flat-playlist subprocess answers (fail: it exits non-zero,
\* badjson: its output is no JSON, empty: no entries, entries: some); the
\* exit code of the --print-json subprocess, its output (json: a JSON object
\* with the fields read, nochannel: a JSON object without channel, garbage:
\* no JSON) and the files it writes under tempId.
ProbeInputs ==
  {i \in [playlistLike : BOOLEAN, flat : {"none", "fail", "badjson", "empty", "entries"},
          code : {0, 1}, stdout : {"json", "nochannel", "garbage"},
          writes : SUBSET {"webm", "part"}] :
     i.playlistLike <=> i.flat # "none"}

\* The record returned for a single video (264-270).
VideoMeta ==
  [title |-> "Title T", artist |-> MetaArtist, album |-> MetaAlbum,
   thumbnail |-> "Thumb url", url |-> "Page url"]

\* The record returned from the first entry of a playlist (219-225).
EntryMeta ==
  [title |-> "Entry title", artist |-> "", album |-> "List title",
   thumbnail |-> "Entry thumb", url |-> "Entry url"]

InitMeta ==
  /\ OthersIdle /\ SweepIdle /\ ParseIdle /\ CleanIdle
  /\ mpc = "idle"
  /\ mdir \in SUBSET {File("J", 1, "mp3"), File("C", 1, "jpg")}
  /\ probeIn \in ProbeInputs
  /\ made = {}
  /\ tempWebmFiles = {}
  /\ mret = NoMeta

metaFixed == <<otherVars, sweepVars, parseVars, cleanVars>>

\* getVideoMetadata(url) up to its first await: the --flat-playlist
\* subprocess for a url that looks like a playlist, the --print-json one
\* (under a fresh tempId) otherwise.
MetaCall ==
  /\ mpc = "idle"
  /\ mpc' = IF probeIn.playlistLike THEN "flat" ELSE "probe"
  /\ UNCHANGED <<mdir, probeIn, made, tempWebmFiles, mret, metaFixed>>

\* The --flat-playlist subprocess has ended.  A failure or output that is no
\* JSON goes to the catch, which throws; with entries the record of the first
\* is returned; without, the --print-json subprocess is started.  The finally
\* finds tempWebmFiles empty.
FlatReturn ==
  /\ mpc = "flat"
  /\ mpc' = CASE probeIn.flat \in {"fail", "badjson"} -> "thrown"
              [] probeIn.flat = "entries" -> "returned"
              [] OTHER -> "probe"
  /\ mret' = IF probeIn.flat = "entries" THEN EntryMeta ELSE mret
  /\ UNCHANGED <<mdir, probeIn, made, tempWebmFiles, metaFixed>>

\* The --print-json subprocess writes "<tempId>.<e>" (it downloads the audio).
ProbeWrite(e) ==
  /\ mpc = "probe"
  /\ e \in probeIn.writes
  /\ TempIdFile(e) \notin made
  /\ made' = made \cup {TempIdFile(e)}
  /\ mdir' = mdir \cup {TempIdFile(e)}
  /\ UNCHANGED <<mpc, probeIn, tempWebmFiles, mret, metaFixed>>

\* Faulty variant of ProbeExit: output that cannot be used gives a record
\* without its fields instead of an error.
ProbeExitPartial ==
  /\ mpc = "probe"
  /\ made = {TempIdFile(e) : e \in probeIn.writes}
  /\ IF probeIn.code # 0
     THEN /\ mpc' = "thrown"
          /\ UNCHANGED <<mdir, tempWebmFiles, mret>>
     ELSE /\ tempWebmFiles' = {f \in mdir : f.id = TempIdFile("webm").id}
          /\ mdir' = cleanup(mdir, tempWebmFiles')
          /\ mpc' = "returned"
          /\ mret' = IF probeIn.stdout = "json" THEN VideoMeta
                     ELSE [VideoMeta EXCEPT !.title = Absent, !.artist = Absent]
  /\ UNCHANGED <<probeIn, made, metaFixed>>

\* The --print-json subprocess has ended, and the rest of getVideoMetadata.
\* A non-zero exit rejects the await: the catch throws and the finally finds
\* tempWebmFiles empty.  Otherwise tempWebmFiles becomes the entries of
\* TEMP_DIR that start with tempId; the output is parsed (no JSON, or no
\* channel to clean: the catch throws) and the record is returned; the
\* finally then gives every file of tempWebmFiles to cleanup.
ProbeExit ==
  /\ mpc = "probe"
  /\ made = {TempIdFile(e) : e \in probeIn.writes}
  /\ IF probeIn.code # 0
     THEN /\ mpc' = "thrown"
          /\ UNCHANGED <<mdir, tempWebmFiles, mret>>
     ELSE /\ tempWebmFiles' = {f \in mdir : f.id = TempIdFile("webm").id}
          /\ mdir' = cleanup(mdir, tempWebmFiles')
          /\ IF probeIn.stdout = "json"
             THEN mpc' = "returned" /\ mret' = VideoMeta
             ELSE mpc' = "thrown" /\ UNCHANGED mret
  /\ UNCHANGED <<probeIn, made, metaFixed>>

NextMeta ==
  \/ MetaCall
  \/ FlatReturn
  \/ \E e \in {"webm", "part"} : ProbeWrite(e)
  \/ ProbeExit

SpecMeta == InitMeta /\ [][NextMeta]_vars

\* ---------------------------------------------------------------- thumbnail selection

\* Largest number of entries of data.thumbnails.
MaxThumbs == 2

\* An entry of data.thumbnails: url "" stands for an entry without url,
\* width and height 0 for an entry without them ((a.width || 0) is 0 then).
Candidates ==
  {[url |-> u, width |-> d[1], height |-> d[2]] :
     u \in {"", "url a", "url b"},
     d \in {<<0, 0>>, <<2, 1>>, <<1, 3>>, <<2, 2>>}}

\* data of the probe: thumbnails (an array, or absent) and thumbnail.
ThumbInputs ==
  {[hasList |-> TRUE, thumbnails |-> ts, thumbnail |-> d] :
     ts \in SeqsUpTo(Candidates, MaxThumbs), d \in {Absent, "default url"}}
  \cup {[hasList |-> FALSE, thumbnails |-> <<>>, thumbnail |-> d] :
          d \in {Absent, "default url"}}

\* Faulty variant of Res: the width alone.
ResWidthOnly(t) == t.width

\* aRes, bRes of the comparator: (a.width || 0) * (a.height || 0).
Res(t) == t.width * t.height

\* The array with t added behind every entry that the comparator bRes - aRes
\* does not put after it.
RECURSIVE InsertByRes(_, _)
InsertByRes(sorted, t) ==
  IF sorted = <<>> THEN <<t>>
  ELSE IF Res(Head(sorted)) >= Res(t)
       THEN <<Head(sorted)>> \o InsertByRes(Tail(sorted), t)
       ELSE <<t>> \o sorted

\* .sort((a, b) => bRes - aRes): a stable sort by decreasing area.
RECURSIVE SortByRes(_)
SortByRes(ts) ==
  IF ts = <<>> THEN <<>>
  ELSE InsertByRes(SortByRes(SubSeq(ts, 1, Len(ts) - 1)), ts[Len(ts)])

HasUrl(t) == t.url # ""

\* sortedThumbnails: the entries with a url, by decreasing area.
sortedThumbnails(ts) == SortByRes(SelectSeq(ts, HasUrl))

\* The thumbnail of the record: sortedThumbnails[0]?.url || data.thumbnail
\* for an array, data.thumbnail otherwise.
SelectThumbnail(in) ==
  IF in.hasList /\ sortedThumbnails(in.thumbnails) # <<>>
  THEN sortedThumbnails(in.thumbnails)[1].url
  ELSE in.thumbnail

InitThumb ==
  /\ PipeIdle /\ ProgIdle /\ SendIdle /\ PairIdle
  /\ SweepIdle /\ ParseIdle /\ CleanIdle /\ MetaIdle /\ NameIdle /\ DirIdle
  /\ thumbIn \in ThumbInputs
  /\ thumbPc = "idle"
  /\ thumbOut = Absent

\* Lines 249-262 of getVideoMetadata.
ThumbSelect ==
  /\ thumbPc = "idle"
  /\ thumbPc' = "done"
  /\ thumbOut' = SelectThumbnail(thumbIn)
  /\ UNCHANGED <<thumbIn, pipeVars, progVars, sendVars, pairVars, sweepVars,
                 parseVars, cleanVars, metaVars, nameVars, dirVars>>

NextThumb == ThumbSelect

SpecThumb == InitThumb /\ [][NextThumb]_vars

\* ---------------------------------------------------------------- entry names

\* Longest item title.
MaxTitle == 2

\* The characters of the titles: a plain one and two the sanitisation replaces.
TitleChars == {"a", "/", "?"}

\* Titles are sequences of characters.
Titles == UNION {[1..n -> TitleChars] : n \in 1..MaxTitle}

\* The titles of the items of a request: any list the client sends.
ItemLists == UNION {[1..n -> Titles] : n \in 1..MaxItems}

\* The characters of the class [/\\?%*:|"<>].
UnsafeChars == {"/", "\\", "?", "%", "*", ":", "|", "\"", "<", ">"}

\* item.title.replace(/[/\\?%*:|"<>]/g, '-') followed by ".mp3".
safeFilename(title) ==
  [k \in 1..Len(title) |-> IF title[k] \in UnsafeChars THEN "-" ELSE title[k]]
    \o <<".mp3">>

InitNames ==
  /\ PipeIdle /\ ProgIdle /\ SendIdle /\ PairIdle
  /\ SweepIdle /\ ParseIdle /\ CleanIdle /\ MetaIdle /\ ThumbIdle /\ DirIdle
  /\ titles \in ItemLists
  /\ apos = 1
  /\ archive = <<>>

\* One iteration of the playlist loop as far as the archive goes: when
\* processVideo returned, archive.file(outputPath, { name: safeFilename });
\* when it threw, nothing is added.
ArchiveItem(ok) ==
  /\ apos <= Len(titles)
  /\ archive' = IF ok
                THEN Append(archive, [path |-> OutputPath(apos),
                                      name |-> safeFilename(titles[apos])])
                ELSE archive
  /\ apos' = apos + 1
  /\ UNCHANGED <<titles, pipeVars, progVars, sendVars, pairVars, sweepVars,
                 parseVars, cleanVars, metaVars, thumbVars, dirVars>>

NextNames == \E ok \in BOOLEAN : ArchiveItem(ok)

SpecNames == InitNames /\ [][NextNames]_vars

\* ---------------------------------------------------------------- cleanupDirectory

\* The subdirectory of the directory at nesting level k.
DirSub(k) == Entry(k, <<"name", 0>>, "sub", "dir", 0)

\* The files that may lie in the directory at level k: one that matches the
\* temp-file patterns and one that does not, old or young.
DirFiles(k) ==
  {Entry(k, <<"name", 1>>, "webm", "file", 0)}
    \cup {Entry(k, <<"name", 2>>, "txt", "file", a) : a \in {0, MAX_AGE + 1}}

\* The files that may lie at any level.
AllDirFiles == UNION {DirFiles(k) : k \in Levels}

\* Directory contents: names are unique within a directory and a nested
\* directory has content only if it exists.
DirTrees ==
  {t \in SUBSET (AllDirFiles \cup {DirSub(k) : k \in 0..(MaxDepth - 1)}) :
     /\ \A e, f \in t : (e.dir = f.dir /\ e.id = f.id /\ e.ext = f.ext) => e = f
     /\ \A e \in t : e.dir > 0 => DirSub(e.dir - 1) \in t}

InitDir ==
  /\ PipeIdle /\ ProgIdle /\ SendIdle /\ PairIdle
  /\ SweepIdle /\ ParseIdle /\ CleanIdle /\ MetaIdle /\ ThumbIdle /\ NameIdle
  /\ dtree \in DirTrees
  /\ dtree0 = dtree
  /\ isRecursive \in BOOLEAN
  /\ calls = [k \in Levels |-> IF k = 0 THEN [NoCall EXCEPT !.st = "reading"]
                                        ELSE NoCall]
  /\ stage = [e \in {f \in dtree : f.kind = "file"} |-> "none"]

dirFixed == <<pipeVars, progVars, sendVars, pairVars, sweepVars, parseVars,
              cleanVars, metaVars, thumbVars, nameVars>>

\* resolve(v) of the promise of a call: counted; the promise keeps the value
\* of the first call.
ResolveCall(c, v) ==
  [c EXCEPT !.st = "resolved", !.resolves = @ + 1,
            !.value = IF c.resolves = 0 THEN v ELSE @]

\* if (--pending === 0) resolve(cleaned)
EntryDone(c) ==
  LET d == [c EXCEPT !.pending = @ - 1]
  IN IF d.pending = 0 THEN ResolveCall(d, d.cleaned) ELSE d

\* The callback of fs.readdir of the call at level k: an error resolves with
\* 0, so does an empty directory; otherwise pending is the number of entries
\* and the forEach starts, for a subdirectory, the recursive call or (not
\* recursive) counts it done, and for a file, fs.stat.
DirRead(k, err) ==
  /\ calls[k].st = "reading"
  /\ LET here == {e \in dtree : e.dir = k}
         c0 == [calls[k] EXCEPT !.st = "running",
                                !.pending = Cardinality(here), !.cleaned = 0]
     IN IF err \/ here = {}
        THEN /\ calls' = [calls EXCEPT ![k] = ResolveCall(@, 0)]
             /\ UNCHANGED stage
        ELSE /\ stage' = [e \in DOMAIN stage |->
                            IF e \in here THEN "stat" ELSE stage[e]]
             /\ calls' = IF DirSub(k) \notin here
                         THEN [calls EXCEPT ![k] = c0]
                         ELSE IF isRecursive
                         THEN [calls EXCEPT ![k] = c0, ![k + 1].st = "reading"]
                         ELSE [calls EXCEPT ![k] = EntryDone(c0)]
  /\ UNCHANGED <<dtree, dtree0, isRecursive, dirFixed>>

\* The callback of fs.stat for file e: on an error the entry is done; a file
\* that is a temp file or older than MAX_AGE goes to fs.unlink; any other
\* file is done.
DirStat(e, err) ==
  /\ e \in DOMAIN stage
  /\ stage[e] = "stat"
  /\ IF err
     THEN /\ stage' = [stage EXCEPT ![e] = "statFailed"]
          /\ calls' = [calls EXCEPT ![e.dir] = EntryDone(@)]
     ELSE IF isTempFile(e) \/ e.age > MAX_AGE
          THEN /\ stage' = [stage EXCEPT ![e] = "unlink"]
               /\ UNCHANGED calls
          ELSE /\ stage' = [stage EXCEPT ![e] = "kept"]
               /\ calls' = [calls EXCEPT ![e.dir] = EntryDone(@)]
  /\ UNCHANGED <<dtree, dtree0, isRecursive, dirFixed>>

\* Faulty variant of DirUnlink: cleaned is counted up whether or not
\* fs.unlink reported an error.
DirUnlinkCountsFailure(e, err) ==
  /\ e \in DOMAIN stage
  /\ stage[e] = "unlink"
  /\ IF err
     THEN /\ stage' = [stage EXCEPT ![e] = "unlinkFailed"]
          /\ UNCHANGED dtree
     ELSE /\ stage' = [stage EXCEPT ![e] = "deleted"]
          /\ dtree' = dtree \ {e}
  /\ calls' = [calls EXCEPT ![e.dir] = EntryDone([@ EXCEPT !.cleaned = @ + 1])]
  /\ UNCHANGED <<dtree0, isRecursive, dirFixed>>

\* The callback of fs.unlink for file e: on an error the file stays and is
\* not counted; otherwise it is gone and cleaned is counted up; either way
\* the entry is done.
DirUnlink(e, err) ==
  /\ e \in DOMAIN stage
  /\ stage[e] = "unlink"
  /\ IF err
     THEN /\ stage' = [stage EXCEPT ![e] = "unlinkFailed"]
          /\ calls' = [calls EXCEPT ![e.dir] = EntryDone(@)]
          /\ UNCHANGED dtree
     ELSE /\ stage' = [stage EXCEPT ![e] = "deleted"]
          /\ dtree' = dtree \ {e}
          /\ calls' = [calls EXCEPT
                         ![e.dir] = EntryDone([@ EXCEPT !.cleaned = @ + 1])]
  /\ UNCHANGED <<dtree0, isRecursive, dirFixed>>

\* The then-callback on the promise of the recursive call made at level k:
\* the count of that call is added to cleaned and the entry is done.
DirThen(k) ==
  /\ k < MaxDepth
  /\ calls[k + 1].st = "resolved"
  /\ calls' = [calls EXCEPT
                 ![k + 1].st = "joined",
                 ![k] = EntryDone([@ EXCEPT !.cleaned = @ + calls[k + 1].value])]
  /\ UNCHANGED <<dtree, dtree0, isRecursive, stage, dirFixed>>

NextDir ==
  \/ \E k \in Levels, err \in BOOLEAN : DirRead(k, err)
  \/ \E e \in AllDirFiles, err \in BOOLEAN : DirStat(e, err)
  \/ \E e \in AllDirFiles, err \in BOOLEAN : DirUnlink(e, err)
  \/ \E k \in Levels : DirThen(k)

SpecDir == InitDir /\ [][NextDir]_vars

\* ================================================================ claims

\* The playlist loop has finished the iteration of item i.
Past(i) == i < idx \/ pc \in {"waitClose", "send", "sending", "batchFinally", "done"}

\* The intermediate files of the single-item job: its cover and its .webm.
Intermediates == ({coverPath, TempWebmPath(1)} \cup tempFiles) \ {NoPath}

C2_DeletedBeforeError ==
  /\ (Single /\ ev.last = "error") =>
        ev.snap \cap (Intermediates \cup {OutputPath(1)}) = {}
  /\ ev.last = "itemError" =>
        ev.snap \cap {ItemCover(ev.job), OutputPath(ev.job), TempWebmPath(ev.job)} = {}

\* The files the request in flight owns: its covers, the working files of the
\* running job, the artifacts waiting for the archiver or for the delivery,
\* and the archive.
Owned ==
  IF pc = "done" THEN {}
  ELSE (({coverPath} \cup tempFiles) \ {NoPath})
       \cup UNION {{OutputPath(i), TempWebmPath(i)} :
                     i \in {j \in Items : jobState[j] = "running"}}
       \cup {OutputPath(queue[k]) : k \in 1..Len(queue)}
       \cup (IF Single /\ jobState[1] = "completed" THEN {OutputPath(1)} ELSE {})
       \cup (IF Single THEN {} ELSE {ZipPath})

\* C3: no unlink of the sweep removes a file the request in flight owns.
C3_SweepSparesOwned ==
  [][\A f \in files : SweepUnlink(f) => f \notin Owned]_vars

\* C6: in a playlist request each failing item gets exactly one per-item error
\* event, the loop goes on to every later item, no request-level 'error' is
\* emitted, the archive is finalized and sent, and 'downloadComplete' is
\* emitted once unless the transfer itself fails; the request is never stuck.
C6_ItemFailuresIsolated ==
  (~Single /\ req.itemsValid) =>
    /\ ev.error = 0
    /\ ev.complete <= 1
    /\ \A i \in 1..req.n :
         /\ Past(i) => /\ jobState[i] \in {"completed", "failed"}
                       /\ ev.itemErr[i] = IF jobState[i] = "failed" THEN 1 ELSE 0
         /\ ~Past(i) => ev.itemErr[i] = 0
    /\ pc = "done" => /\ finalized
                      /\ delivered # "none"
                      /\ (delivered = "ok") <=> (ev.complete = 1)
    /\ pc # "done" => ENABLED Request

\* C6 witness: a finished playlist request whose first item failed, whose last
\* item completed and whose archive was delivered.
C6_Witness ==
  /\ ~Single /\ pc = "done" /\ req.n >= 2
  /\ jobState[1] = "failed" /\ ev.itemErr[1] = 1
  /\ jobState[req.n] = "completed"
  /\ ev.complete = 1

\* C7: the delivered archive holds one entry per completed item, and none for
\* a failed one.
C7_EntriesAreCompletedItems ==
  (~Single /\ delivered = "ok") =>
    {entries[k] : k \in 1..Len(entries)} =
       {i \in 1..req.n : jobState[i] = "completed"}

\* C8: the job of item i+1 starts only after the job of item i has completed
\* or failed, at most one subprocess of the request is alive, and the archive
\* entries are appended in item order.
C8_ItemsSerialized ==
  /\ \A i \in Items : (i + 1 \in Items /\ jobState[i + 1] # "pending")
                         => jobState[i] \in {"completed", "failed"}
  /\ Cardinality({i \in Items : proc[i] # "none"}) <= 1
  /\ LET order == entries \o queue
     IN \A j, k \in 1..Len(order) : j < k => order[j] < order[k]

\* C8 witness: a playlist whose first two items both completed, one after the
\* other, and are both in the archive.
C8_Witness ==
  /\ ~Single /\ Len(entries) >= 2
  /\ entries[1] = 1 /\ entries[2] = 2
  /\ jobState[1] = "completed" /\ jobState[2] = "completed"

\* C9: after the archive has been sent, the archive and every artifact that
\* was added to it are gone from TEMP_DIR.
C9_ArchiveAndArtifactsDeleted ==
  (~Single /\ pc = "done" /\ delivered = "ok") =>
    /\ ZipPath \notin files
    /\ \A k \in 1..Len(entries) : OutputPath(entries[k]) \notin files

\* C10: after the archive has been sent, every cover the request used (the
\* uploaded one, the one fetched from the cover URL, the ones fetched per
\* item) is gone from TEMP_DIR.
C10_CoversDeleted ==
  (~Single /\ pc = "done" /\ delivered = "ok") =>
    {f \in files : f.id[1] \in {"U", "S", "C"}} = {}

\* The subprocess itself reports percentages that never decrease.
SubprocessMonotone ==
  \A j, k \in 1..Len(parsed) : j < k => parsed[j] <= parsed[k]

\* C4: the percentages of consecutive progress events of a job never decrease
\* (stated for a subprocess whose own percentages never decrease, so that a
\* decrease is the program's doing).
C4_ProgressNonDecreasing ==
  SubprocessMonotone =>
    \A k \in 1..(Len(out) - 1) : out[k].progress <= out[k + 1].progress

\* C5: within one status (downloading, processing) no progress event carries a
\* percentage below the one emitted before it with that status (again for a
\* subprocess whose own percentages never decrease).
C5_PhaseNonDecreasing ==
  SubprocessMonotone =>
    \A j, k \in 1..Len(out) :
      (j < k /\ out[j].status = out[k].status /\
       \A m \in (j + 1)..(k - 1) : out[m].status # out[j].status)
         => out[j].progress <= out[k].progress

\* C12: once a delivery has ended, complete or broken off part-way, and the
\* handler has finished, the delivered artifact (the .mp3 of a single-item
\* job, the archive of a playlist) is gone from TEMP_DIR.
C12_ArtifactDeletedAfterDelivery ==
  (pc = "done" /\ delivered # "none") => SendTarget \notin files

\* C14: a job whose tag write failed ends failed; its untagged file is never
\* the output processVideo returns for delivery or for the archive.
C14_TagFailureFailsJob ==
  tags.state = "failed" =>
    /\ jobState[idx] = "failed"
    /\ pc \notin {"send", "itemOk"}

\* The working files of the job of item i.
Working(i) == {OutputPath(i), TempWebmPath(i)}

\* The artifact of item i has been handed to the archiver or to the delivery.
Handed(i) ==
  \/ OutputPath(i) \in results
  \/ \E k \in 1..Len(queue) : queue[k] = i
  \/ \E k \in 1..Len(entries) : entries[k] = i
  \/ Single /\ (delivered # "none" \/ pc \in {"send", "sending", "singleCleanup"})

\* C15: a subprocess that exits with a non-zero code, or with code 0 and no
\* output file, fails the job at once and without writing tags; a failed job
\* stays failed and its artifact is never archived nor delivered.
C15_SubprocessFailureFailsJob ==
  /\ [][((\E code \in {1} : YtdlpClose(code)) \/
         (OutputCheck /\ OutputPath(idx) \notin files))
          => (jobState'[idx] = "failed" /\ tags' = NoTags /\ pc' = CatchPc)]_vars
  /\ [][\A i \in Items : jobState[i] = "failed" => jobState'[i] = "failed"]_vars
  /\ [](\A i \in Items : jobState[i] = "failed" =>
          (~Handed(i) /\ (Single => ev.complete = 0)))

\* C15 witness: the second job of a playlist has just failed with the download
\* on disk and no output file, after the first job completed.
C15_Witness ==
  /\ ~Single /\ pc = "itemCatch" /\ idx = 2
  /\ jobState[1] = "completed" /\ jobState[2] = "failed"
  /\ TempWebmPath(2) \in preFail /\ OutputPath(2) \notin preFail
  /\ tags = NoTags

\* The place of a job state in Created (pending, started), Resolving,
\* Downloading (running), Tagging, Completed | Failed.
Rank(st) ==
  CASE st \in {"pending", "started"} -> 0
    [] st = "resolving" -> 1
    [] st = "running" -> 2
    [] st = "tagging" -> 3
    [] st \in {"completed", "failed"} -> 4

\* C16: a job only moves forward through Created, Resolving, Downloading,
\* Tagging, Completed, or to Failed from a state that is not terminal; it
\* enters Tagging only from Downloading, after the subprocess has exited with
\* code 0 and with the output file in place, it completes only from Tagging,
\* and it never leaves Completed or Failed.
C16_StateOrder ==
  [][\A i \in Items : jobState'[i] # jobState[i] =>
        /\ jobState[i] \notin {"completed", "failed"}
        /\ Rank(jobState'[i]) > Rank(jobState[i]) \/
             (jobState[i] = "pending" /\ jobState'[i] = "started")
        /\ jobState'[i] = "running" => jobState[i] \in {"started", "resolving"}
        /\ jobState'[i] = "tagging" =>
             (jobState[i] = "running" /\ pc = "closed" /\ proc[i] = "none"
              /\ OutputPath(i) \in files)
        /\ jobState'[i] = "completed" => jobState[i] = "tagging"]_vars

\* C16 witness: a finished playlist with a job that went all the way to
\* Completed and a later job that went to Failed.
C16_Witness ==
  /\ ~Single /\ pc = "done" /\ req.n >= 2
  /\ jobState[1] = "completed" /\ jobState[req.n] = "failed"

\* C17: the tags embedded for a job equal the title, artist and album the
\* request gave explicitly (the empty string included), alone or as a
\* playlist item under shared overrides.
C17_ExplicitTagsWritten ==
  tags.state = "ok" =>
    /\ tags.title = JobTitle
    /\ req.artist # Absent => tags.artist = req.artist
    /\ req.album # Absent => tags.album = req.album

\* C18: a playlist item is tagged with the shared artist, album and cover
\* whenever the request supplied one, and with the item's own metadata only
\* where the request supplied none.
C18_OverridesWin ==
  (~Single /\ tags.state = "ok") =>
    /\ tags.artist = IF req.artist # Absent THEN req.artist ELSE MetaArtist
    /\ tags.album = IF req.album # Absent THEN req.album ELSE MetaAlbum
    /\ coverPath # NoPath => songCoverPath = coverPath

\* The fetch of the request's cover URL was tried and failed.
SharedFetchFailed ==
  /\ req.upload = "none" /\ req.coverUrl
  /\ pc \notin {"start", "sharedThumb"}
  /\ SharedCover \notin tempFiles

\* C19: when the fetch of a cover fails, the job goes on without a cover:
\* the file it tags carries no image.
C19_CoverFailureMeansNoImage ==
  (SharedFetchFailed /\ tags.state = "ok") => ~tags.image

\* The handler's catch after a job has failed.
FailureHandled == ItemCatch \/ (SingleCatch /\ jobState[1] = "failed")

PosOf(type, k) ==
  IF \E p \in 1..Len(chan) : chan[p].type = type /\ chan[p].k = k
  THEN CHOOSE p \in 1..Len(chan) : chan[p].type = type /\ chan[p].k = k
  ELSE 0

PathsOf(r) ==
  ({rq[r].coverPath, rq[r].outputPath, rq[r].tempWebmPath} \cup rq[r].tempFiles)
    \ {NoPath}

\* C13: two requests in flight at once use disjoint sets of temp paths, and
\* no cleanup made for one deletes a file of the other: every file a request
\* or its subprocess has created is in TEMP_DIR until that same request or
\* subprocess removes it.
C13_RequestsDoNotInterfere ==
  /\ PathsOf(1) \cap PathsOf(2) = {}
  /\ {f.id : f \in PathsOf(1)} \cap {f.id : f \in PathsOf(2)} = {}
  /\ \A r \in Reqs : rq[r].own \subseteq files /\ rq[r].own \subseteq PathsOf(r)

\* C13 witness: one request has cleaned up after its delivery while the other
\* still has its cover and its output in TEMP_DIR.
C13_Witness ==
  /\ rq[1].pc = "done" /\ rq[1].coverPath # NoPath /\ rq[1].coverPath \notin files
  /\ rq[2].pc = "send" /\ rq[2].coverPath \in files /\ rq[2].outputPath \in files

\* The directories whose cleanupDirectory call of the run has resolved.
SweptDirs == {<<TEMP_DIR, DirName, ParentDir>>[i] : i \in 1..Len(resolved)}

\* C21: a run of the scheduled cleanup never deletes a file that lies outside
\* the scratch directory TEMP_DIR, whatever its age or name.
C21_SweepStaysInScratch == \A e \in tree0 \ tree : e.dir = TEMP_DIR

Processed(i) == jobState[i] \in {"completed", "failed"}

\* C22: the extraction subprocess of a job is spawned at most once and every
\* item of a batch is processed exactly once.  A subprocess starts only for
\* the item in turn, whose job has neither run nor failed yet; a job that has
\* run never goes back to a state from which a subprocess is spawned; a job
\* that has ended stays as it ended and has no subprocess any more; the loop
\* never steps back; and when the loop has ended every item has been processed.
C22_SingleAttempt ==
  /\ []((req.mode = "playlist" /\ finalized) => \A i \in 1..req.n : Processed(i))
  /\ [][/\ idx' >= idx
        /\ \A i \in Items :
             /\ (proc[i] = "none" /\ proc'[i] # "none")
                  => (i = idx /\ jobState[i] \in {"started", "resolving"}
                      /\ jobState'[i] = "running")
             /\ jobState[i] \in {"running", "tagging", "completed", "failed"}
                  => jobState'[i] \notin {"pending", "started", "resolving"}
             /\ Processed(i) => (jobState'[i] = jobState[i] /\ proc'[i] = "none")
             /\ (jobState[i] = "pending" /\ jobState'[i] # "pending") => i = idx]_vars

\* C22 witness: a batch of two items has ended; the first item failed and was
\* left at that, the second completed.
C22_Witness ==
  /\ req.mode = "playlist" /\ req.n = 2 /\ finalized
  /\ jobState[1] = "failed" /\ jobState[2] = "completed"
  /\ ev.itemErr[1] = 1

\* C23: at most one progress event is emitted per throttle window: any two
\* progress events of a job lie more than PROGRESS_UPDATE_INTERVAL ms apart.
C23_OnePerWindow ==
  \A j, k \in 1..Len(out) :
    j < k => out[k].at - out[j].at > PROGRESS_UPDATE_INTERVAL

\* The number of progress events of the job that carry milestone message m.
Milestones(m) == Cardinality({k \in 1..Len(out) : out[k].message = m})

\* C24: neither milestone message is ever emitted twice, and once the
\* subprocess has exited the halfway message has been emitted if a parsed
\* percentage was above 50, the almost-complete message if one was above 90.
C24_MilestonesExactlyOnce ==
  /\ Milestones("halfway") <= 1
  /\ Milestones("almost") <= 1
  /\ ppc = "closed" =>
       /\ (\E k \in 1..Len(parsed) : parsed[k] > 50) => Milestones("halfway") = 1
       /\ (\E k \in 1..Len(parsed) : parsed[k] > 90) => Milestones("almost") = 1

\* C25: the percentage computed for a recognised line lies between 0 and 100,
\* and for a line recognised by its frame and time it is the elapsed seconds
\* over a total of 300 seconds, at most 99.
C25_PercentageInRange ==
  (parsePc = "done" /\ FirstMatch(line) # 0) =>
     /\ 0 <= parseOut /\ parseOut <= 100
     /\ FirstMatch(line) = 5 =>
          \/ parseOut = 99 /\ line.h * 3600 + line.m * 60 + line.s >= 297
          \/ parseOut * 3 = line.h * 3600 + line.m * 60 + line.s

\* cleanup has returned.
CleanupReturned == cpos = Len(filePaths) + 1

\* `<base>.<e>` for path p: base is p without its extension if that is one
\* of the known ones.
Sibling(p, e) ==
  [id |-> p.id, ext |-> IF p.ext \in CleanupExts THEN e ELSE p.ext \o "." \o e]

\* Nothing is left of path p: neither p, nor a sibling with a known
\* extension, nor, if p is named by a uuid, any file of that uuid.
Gone(p) ==
  /\ p \notin cdir
  /\ \A e \in CleanupExts : Sibling(p, e) \notin cdir
  /\ IsUuid(p.id) => \A f \in cdir : f.id # p.id

\* C26: no exception leaves cleanup, whether entries are absent or deletions
\* fail, and a failure on one path does not keep the others from being
\* handled: once cleanup has returned, nothing is left of any path during
\* whose turn no filesystem call threw.
C26_CleanupNeverRaises ==
  /\ ~craised
  /\ cfailed \subseteq 1..(cpos - 1)
  /\ CleanupReturned =>
       \A k \in 1..Len(filePaths) :
         (filePaths[k] # NoPath /\ k \notin cfailed) => Gone(filePaths[k])

\* C26 witness: cleanup has returned from a call with an absent entry, a
\* path whose deletion failed, and after it a path that was there and is gone.
C26_Witness ==
  /\ CleanupReturned
  /\ \E j, k \in 1..Len(filePaths) :
        /\ j < k /\ j \in cfailed /\ k \notin cfailed
        /\ filePaths[k] \in cdir0 /\ filePaths[k] \notin cdir

MetaEnded == mpc \in {"returned", "thrown"}

\* C29: when getVideoMetadata has returned or thrown, no file the probe
\* created under its tempId is left in TEMP_DIR.
C29_ProbeFilesDeleted == MetaEnded => made \cap mdir = {}

\* A subprocess of the call exited non-zero or printed something that is no
\* JSON: the --flat-playlist one, or the --print-json one if it was run.
MetaSubprocessFailed ==
  \/ probeIn.flat \in {"fail", "badjson"}
  \/ /\ probeIn.flat \in {"none", "empty"}
     /\ probeIn.code # 0 \/ probeIn.stdout = "garbage"

\* C30: if a metadata subprocess exits non-zero or prints no valid JSON,
\* getVideoMetadata throws and yields no record; and whenever it throws no
\* record is yielded, whenever it returns the record has all its fields.
C30_FailureYieldsNoRecord ==
  /\ (MetaEnded /\ MetaSubprocessFailed) => mpc = "thrown"
  /\ mpc = "thrown" => mret = NoMeta
  /\ mpc = "returned" => mret \in {VideoMeta, EntryMeta}
  /\ ~MetaEnded => mret = NoMeta

\* C30 witness: the probe exited with code 0 after writing a file, its output
\* was no JSON, and getVideoMetadata has thrown.
C30_Witness ==
  /\ mpc = "thrown" /\ probeIn.code = 0 /\ probeIn.stdout = "garbage"
  /\ made # {} /\ tempWebmFiles = made

\* One of the shared overrides of a batch is absent: no artist or no album
\* was sent, or the request has no cover (none uploaded, none fetched).
OverrideAbsent ==
  req.artist = Absent \/ req.album = Absent \/ coverPath = NoPath

\* C31: a batch item is probed for its metadata if and only if one of the
\* shared artist, album and cover is absent; with all three supplied no item
\* is probed and no thumbnail is fetched for it.
C31_ProbeIffOverrideAbsent ==
  ~Single =>
    /\ pc = "probe" => OverrideAbsent
    /\ pc = "thumb" => OverrideAbsent
    /\ (pc = "spawn" /\ jobState[idx] = "started") => ~OverrideAbsent

\* The entries of data.thumbnails that have a url.
WithUrl == {k \in 1..Len(thumbIn.thumbnails) : thumbIn.thumbnails[k].url # ""}

\* C32: the thumbnail selected is the url of an entry whose width*height is
\* the largest among the entries that have a url; without such an entry, or
\* without a list, it is the default thumbnail field.
C32_ThumbnailIsLargest ==
  thumbPc = "done" =>
    IF thumbIn.hasList /\ WithUrl # {}
    THEN \E k \in WithUrl :
           /\ thumbOut = thumbIn.thumbnails[k].url
           /\ \A j \in WithUrl :
                thumbIn.thumbnails[j].width * thumbIn.thumbnails[j].height
                  <= thumbIn.thumbnails[k].width * thumbIn.thumbnails[k].height
    ELSE thumbOut = thumbIn.thumbnail

\* C32 witness: of two entries with a url the second, larger one was
\* selected although the first is the wider.
C32_Witness ==
  /\ thumbPc = "done" /\ Len(thumbIn.thumbnails) = 2
  /\ thumbIn.thumbnails[1].url = "url a" /\ thumbIn.thumbnails[2].url = "url b"
  /\ thumbIn.thumbnails[1].width > thumbIn.thumbnails[2].width
  /\ thumbOut = "url b"

\* C33: once the job has reached its end (the subprocess has exited,
\* processVideo has run to its return or throw in that same turn and the
\* caller has gone on), no further progress event of the job is emitted.
C33_NoProgressAfterTerminal == [][ppc = "closed" => out' = out]_vars

\* C34: a single-item request emits at most one terminal event: never both
\* 'downloadComplete' and 'error', and neither more than once.
C34_OneTerminalEvent == Single => ev.complete + ev.error <= 1

\* C34 witness: the job of a single-item request completed, its delivery
\* broke off, and the request ended with one 'error' and no 'downloadComplete'.
C34_Witness ==
  /\ Single /\ pc = "done" /\ jobState[1] = "completed" /\ delivered = "failed"
  /\ ev.error = 1 /\ ev.complete = 0

\* Number of chunks of chunkSize bytes the read stream cuts the file into.
NChunks == (fileSize + chunkSize - 1) \div chunkSize

\* The 'downloadChunk' events emitted so far, in order.
ChunkEvents == SelectSeq(chan, LAMBDA e : e.type = "chunk")

\* 'downloadComplete' has been emitted.
Completed == \E p \in 1..Len(chan) : chan[p].type = "complete"

\* The chunk events so far: at most n, with non-decreasing percentage; and
\* once the completion event is out exactly n, the last one at 100.
ChunksAsClaimed ==
  /\ Len(ChunkEvents) <= NChunks
  /\ \A j, k \in 1..Len(ChunkEvents) :
        j <= k => ChunkEvents[j].progress <= ChunkEvents[k].progress
  /\ Completed =>
        /\ Len(ChunkEvents) = NChunks
        /\ NChunks > 0 => ChunkEvents[NChunks].progress = 100
        /\ chan[Len(chan)].type \in {"complete", "ack"}
        /\ \A p \in 1..Len(chan) : chan[p].type = "complete" =>
              \A q \in (p + 1)..Len(chan) : chan[q].type # "chunk"

\* C35: with a consumer that acknowledges every chunk, the delivery of a file
\* of n chunks emits exactly n chunk events with non-decreasing cumulative
\* percentage, the last at 100; unless the delivery throws (the file is
\* missing or a read fails) the completion event is eventually emitted; and
\* after the completion event the delivered file is eventually deleted.
C35_DeliveryCompletes ==
  /\ []ChunksAsClaimed
  /\ (spc = "idle") ~> (spc = "thrown" \/ Completed)
  /\ Completed ~> (OutputPath(1) \notin files)

\* C35 witness: a file of several chunks was delivered to the end and the
\* handler has deleted it.
C35_Witness ==
  /\ Completed /\ NChunks >= 2 /\ Len(ChunkEvents) = NChunks
  /\ pc = "done" /\ OutputPath(1) \notin files

\* C36: in the progress events of a job the 'halfway' milestone message never
\* comes after the 'almost complete' milestone message.
C36_HalfwayNeverAfterAlmost ==
  \A j, k \in 1..Len(out) :
    (j < k /\ out[j].message = "almost") => out[k].message # "halfway"

\* C37: any two distinct successfully processed items of a batch are stored
\* in the archive under distinct entry names.
C37_EntryNamesDistinct ==
  \A j, k \in 1..Len(archive) :
    j # k => archive[j].name # archive[k].name

\* A callback of the call at level k is still to come: of fs.readdir, of
\* fs.stat or fs.unlink for one of its files, or of the recursive call.
Outstanding(k) ==
  \/ calls[k].st = "reading"
  \/ \E e \in DOMAIN stage : e.dir = k /\ stage[e] \in {"stat", "unlink"}
  \/ k < MaxDepth /\ calls[k + 1].st \in {"reading", "running", "resolved"}

\* The files the call at level k has deleted: those gone from its directory
\* and from the directories below.
DeletedBy(k) == {e \in dtree0 \ dtree : e.dir >= k}

\* C38: the promise of a cleanupDirectory call is resolved at most once, it
\* is resolved once every callback of the call has run, and its value is the
\* number of files the call deleted, whatever the directory holds, whichever
\* filesystem calls fail and with either recursion setting.
C38_ResolvesOnceWithCount ==
  \A k \in Levels :
    /\ calls[k].resolves <= 1
    /\ (calls[k].st # "none" /\ ~Outstanding(k)) => calls[k].resolves = 1
    /\ calls[k].resolves = 1 => calls[k].value = Cardinality(DeletedBy(k))

\* C38 witness: a recursive call has resolved with the two files it deleted,
\* one of them in a subdirectory, after the unlink of another file failed.
C38_Witness ==
  /\ isRecursive /\ calls[0].resolves = 1 /\ calls[0].value = 2
  /\ \E e \in DOMAIN stage : stage[e] = "unlinkFailed"
  /\ \E e \in DeletedBy(0) : e.dir = 1

====
